---------------------------- MODULE Spec2Model ----------------------------
(***************************************************************************)
(* Gesture-to-action translation layer of the hand-gesture controller:     *)
(* the OS action backend (gestures.py, mouse_control.py), the gesture      *)
(* dispatch (actionHandler.py), the hold manager (hold_manager.py), the    *)
(* result store (result_store.py) and the frame loop (handRecognition.py). *)
(*                                                                         *)
(* Python's None is the string "None".  Time is counted in tenths of a     *)
(* second, so that every cooldown of the program is an integer.            *)
(***************************************************************************)
EXTENDS Integers, Sequences, FiniteSets, TLC

None == "None"
\* None where the program holds an integer (a hand index)
NoIndex == 0 - 1

VARIABLES
    \* ---- gestures.py: OS action backend
    hold_state,      \* _hold_state: [holding, hand_index, handedness]
    has_pyautogui,   \* _HAS_PYAUTOGUI, fixed when the module is imported
    be_call,         \* observation: the last backend call, what it tried, what it returned
    \* ---- the clock read by time.time(), in tenths of a second
    now,
    \* ---- result_store.py (ResultStore) and handRecognition.py (latest_result)
    rs_lock,         \* ResultStore._lock: the thread holding it, or None
    rs,              \* ResultStore: [gestures, handedness, landmarks, last_update_ts]
    lr_lock,         \* handRecognition.lock: the thread holding it, or None
    latest_result,   \* handRecognition.latest_result: [gestures, handedness, landmarks]
    th_pc,           \* per thread: where it is in its current call
    th_arg,          \* per writer thread: the triple (and ts) of its current call
    th_got,          \* per reader thread: what its current or last read obtained
    \* ---- result_store.py, list objects by reference (who shares a list with whom)
    heap,            \* list object -> its elements
    rs_ref,          \* ResultStore: the list objects _gestures, _handedness, _landmarks name
    in_ref,          \* the lists the caller passed to the last set()
    out_ref,         \* the lists the last snapshot() returned
    cp_obs,          \* observation: the values passed to the last set(), returned by the
                     \* last snapshot(), the last operation, what was mutated since set()
    \* ---- actionHandler.py and the actions of gestures.py
    ah_last_trigger_time,  \* actionHandler._last_trigger_time: gesture -> time
    g_last_trigger_time,   \* gestures._last_trigger_time: gesture -> time
    dp_repertoire,   \* the gesture names the recognizer reports in this run
    dp_invoked_at,   \* observation: gesture -> time its action was last invoked
    dp_obs,          \* observation: the last dispatch made at this clock reading, and
                     \* whether it invoked the action
    \* ---- hold_manager.py (HoldManager)
    hm_start_kind,   \* the start_hold hook given to the constructor: missing, or its signature
    hm_stop_kind,    \* the stop_hold hook: missing or callable
    hm_prev,         \* _prev_gestures: hand index -> gesture
    hm_last_start_ts,\* _last_start_ts: hand index -> time
    hm_holding,      \* _holding: hand index -> bool
    hm_last_ev,      \* observation: per hand, the last hook call made for it
    hm_obs,          \* observation: the last call of update/release_all and the hook calls it made
    hm_pat,          \* observation: progress of hand 0 through [no gesture, hold.., no gesture]
    \* ---- handRecognition.py (handRecognition) and main.py (main)
    lp_pc,           \* where the program is: the frame loop, after it, returned, raised, torn down
    lp_prev,         \* the loop's _prev_gestures: hand index -> gesture
    lp_exit,         \* observation: why the frame loop stopped
    lp_released,     \* observation: the release after the loop (stop_hold) was invoked
    lp_obs,          \* observation: the last tick, its frame and the dispatches it made
    \* ---- mouse_control.py (_get_monitor_geometry)
    ge_obs,          \* observation: the last call of _get_monitor_geometry
    \* ---- tracker.py (Tracker)
    tr_cfg,          \* the constructor's arguments
    tr_env,          \* what the display queries and the backends answer in this run
    tr_last_smoothed,\* _last_smoothed: hand index -> (sx, sy)
    tr_run,          \* observation: per hand, its run of centre fingertips
    tr_ticks,        \* observation: the calls of track_hand made
    tr_obs,          \* observation: the last call of track_hand
    \* ---- the landmark objects the lists of result_store.py hold
    lm_points,       \* landmark object -> the coordinate of a point in it
    dc_obs,          \* observation: the points passed to set() and returned by snapshot()
    \* ---- the external commands a tick of the frame loop starts
    cm_pc,           \* where the main thread is: "idle", "tick" or "waiting" for a command
    cm_cmd,          \* the command being waited for
    cm_hung,         \* whether that command never returns on its own
    cm_tick,         \* observation: the ticks completed
    cm_ran,          \* observation: the commands started in this tick
    cm_obs,          \* observation: how the last wait ended
    \* ---- recognizer.py (RecognizerRunner._make_callback)
    rc_store,        \* result_store: its _gestures, _handedness, _landmarks
    rc_obs,          \* observation: the last invocation of the callback
    \* ---- hold_manager.py, one call of update() in full
    hu_obs           \* observation: the frame of the last update(), the manager before it,
                     \* the hook calls it made and whether it raised

beVars == <<hold_state, has_pyautogui, be_call>>
stVars == <<rs_lock, rs, lr_lock, latest_result, th_pc, th_arg, th_got>>

cpVars == <<heap, rs_ref, in_ref, out_ref, cp_obs>>

dpVars == <<ah_last_trigger_time, g_last_trigger_time, dp_repertoire, dp_invoked_at, dp_obs>>

hmVars == <<hm_start_kind, hm_stop_kind, hm_prev, hm_last_start_ts, hm_holding, hm_last_ev,
            hm_obs, hm_pat>>

lpVars == <<lp_pc, lp_prev, lp_exit, lp_released, lp_obs>>

geVars == <<ge_obs>>

trVars == <<tr_cfg, tr_env, tr_last_smoothed, tr_run, tr_ticks, tr_obs>>

dcVars == <<lm_points, dc_obs>>
cmVars == <<cm_pc, cm_cmd, cm_hung, cm_tick, cm_ran, cm_obs>>
rcVars == <<rc_store, rc_obs>>
huVars == <<hu_obs>>

vars == <<beVars, now, stVars, cpVars, dpVars, hmVars, lpVars, geVars, trVars, dcVars, cmVars, rcVars, huVars>>

(***************************************************************************)
(* OS action backend                                                       *)
(***************************************************************************)

\* What the environment answers during one call: the library call raises or
\* not, each command-line tool is missing (shutil.which gives None), exits
\* with 0 ("ok") or fails (non-zero exit, or any exception of check_call).
LibOutcomes == IF has_pyautogui THEN {"ok", "raise"} ELSE {"absent"}
CliOutcomes == {"missing", "ok", "fail"}

HoldEnvs == [py : LibOutcomes, xdotool : CliOutcomes, ydotool : CliOutcomes]

Handedness == {"Left", "Right", None}
NumHands == 2
HandIndexes == 0 .. (NumHands - 1)

\* _run_cmd(cmd): True when check_call returns, False on any exception.
run_cmd(outcome) == outcome = "ok"

HoldStateInit == [holding |-> FALSE, hand_index |-> NoIndex, handedness |-> None]

\* A call's result: the new _hold_state, the value returned, whether the
\* call raised, and the mechanisms invoked, in order.
BeResult(st, ret, tried) == [state |-> st, ret |-> ret, raised |-> FALSE, tried |-> tried]

start_hold_xdotool_stops(st, handedness, handIndex, env) ==
    LET pressed == [holding |-> TRUE, hand_index |-> handIndex, handedness |-> handedness]
        t1 == IF has_pyautogui THEN <<"pyautogui">> ELSE <<>>
    IN  IF st.holding THEN BeResult(st, TRUE, <<>>)
        ELSE IF has_pyautogui /\ env.py = "ok" THEN BeResult(pressed, TRUE, t1)
        ELSE IF env.xdotool # "missing"
             THEN IF run_cmd(env.xdotool) THEN BeResult(pressed, TRUE, t1 \o <<"xdotool">>)
                  ELSE BeResult(st, FALSE, t1 \o <<"xdotool">>)
        ELSE IF env.ydotool # "missing" /\ run_cmd(env.ydotool)
             THEN BeResult(pressed, TRUE, t1 \o <<"ydotool">>)
        ELSE BeResult(st, FALSE, t1 \o (IF env.ydotool # "missing" THEN <<"ydotool">> ELSE <<>>))

start_hold_no_guard(st, handedness, handIndex, env) ==
    LET pressed == [holding |-> TRUE, hand_index |-> handIndex, handedness |-> handedness]
        t1 == IF has_pyautogui THEN <<"pyautogui">> ELSE <<>>
        t2 == t1 \o (IF env.xdotool # "missing" THEN <<"xdotool">> ELSE <<>>)
        t3 == t2 \o (IF env.ydotool # "missing" THEN <<"ydotool">> ELSE <<>>)
    IN  IF has_pyautogui /\ env.py = "ok" THEN BeResult(pressed, TRUE, t1)
        ELSE IF env.xdotool # "missing" /\ run_cmd(env.xdotool) THEN BeResult(pressed, TRUE, t2)
        ELSE IF env.ydotool # "missing" /\ run_cmd(env.ydotool) THEN BeResult(pressed, TRUE, t3)
        ELSE BeResult(st, FALSE, t3)

start_hold_marks_on_failure(st, handedness, handIndex, env) ==
    LET pressed == [holding |-> TRUE, hand_index |-> handIndex, handedness |-> handedness]
        t1 == IF has_pyautogui THEN <<"pyautogui">> ELSE <<>>
        t2 == t1 \o (IF env.xdotool # "missing" THEN <<"xdotool">> ELSE <<>>)
        t3 == t2 \o (IF env.ydotool # "missing" THEN <<"ydotool">> ELSE <<>>)
    IN  IF st.holding THEN BeResult(st, TRUE, <<>>)
        ELSE IF has_pyautogui /\ env.py = "ok" THEN BeResult(pressed, TRUE, t1)
        ELSE IF env.xdotool # "missing" /\ run_cmd(env.xdotool) THEN BeResult(pressed, TRUE, t2)
        ELSE IF env.ydotool # "missing" /\ run_cmd(env.ydotool) THEN BeResult(pressed, TRUE, t3)
        ELSE BeResult(pressed, FALSE, t3)

\* start_hold(handedness, handIndex): no-op when already holding, else the
\* library, then xdotool, then ydotool; the state changes with the first
\* mechanism that succeeds.
start_hold(st, handedness, handIndex, env) ==
    LET pressed == [holding |-> TRUE, hand_index |-> handIndex, handedness |-> handedness]
        t1 == IF has_pyautogui THEN <<"pyautogui">> ELSE <<>>
        t2 == t1 \o (IF env.xdotool # "missing" THEN <<"xdotool">> ELSE <<>>)
        t3 == t2 \o (IF env.ydotool # "missing" THEN <<"ydotool">> ELSE <<>>)
    IN  IF st.holding THEN BeResult(st, TRUE, <<>>)
        ELSE IF has_pyautogui /\ env.py = "ok" THEN BeResult(pressed, TRUE, t1)
        ELSE IF env.xdotool # "missing" /\ run_cmd(env.xdotool) THEN BeResult(pressed, TRUE, t2)
        ELSE IF env.ydotool # "missing" /\ run_cmd(env.ydotool) THEN BeResult(pressed, TRUE, t3)
        ELSE BeResult(st, FALSE, t3)

stop_hold_no_guard(st, env) ==
    LET released == [holding |-> FALSE, hand_index |-> NoIndex, handedness |-> None]
        t1 == IF has_pyautogui THEN <<"pyautogui">> ELSE <<>>
        t2 == t1 \o (IF env.xdotool # "missing" THEN <<"xdotool">> ELSE <<>>)
        t3 == t2 \o (IF env.ydotool # "missing" THEN <<"ydotool">> ELSE <<>>)
    IN  IF has_pyautogui /\ env.py = "ok" THEN BeResult(released, TRUE, t1)
        ELSE IF env.xdotool # "missing" /\ run_cmd(env.xdotool) THEN BeResult(released, TRUE, t2)
        ELSE IF env.ydotool # "missing" /\ run_cmd(env.ydotool) THEN BeResult(released, TRUE, t3)
        ELSE BeResult(st, FALSE, t3)

\* stop_hold(): no-op when not holding, else the same chain with the
\* release commands.
stop_hold(st, env) ==
    LET released == [holding |-> FALSE, hand_index |-> NoIndex, handedness |-> None]
        t1 == IF has_pyautogui THEN <<"pyautogui">> ELSE <<>>
        t2 == t1 \o (IF env.xdotool # "missing" THEN <<"xdotool">> ELSE <<>>)
        t3 == t2 \o (IF env.ydotool # "missing" THEN <<"ydotool">> ELSE <<>>)
    IN  IF ~st.holding THEN BeResult(st, TRUE, <<>>)
        ELSE IF has_pyautogui /\ env.py = "ok" THEN BeResult(released, TRUE, t1)
        ELSE IF env.xdotool # "missing" /\ run_cmd(env.xdotool) THEN BeResult(released, TRUE, t2)
        ELSE IF env.ydotool # "missing" /\ run_cmd(env.ydotool) THEN BeResult(released, TRUE, t3)
        ELSE BeResult(st, FALSE, t3)

BeCallInit == [op |-> "none", before |-> "none"]

\* The button command a recorded call emitted: the mechanism that made
\* start_hold or stop_hold return True ("Returns True if the press was
\* emitted"), none when the call was a no-op or every mechanism failed.
Emitted(c) ==
    IF c.op = "start_hold" /\ c.ret /\ c.tried # <<>> THEN "press"
    ELSE IF c.op = "stop_hold" /\ c.ret /\ c.tried # <<>> THEN "release"
    ELSE "none"

\* The last button command emitted up to and including a recorded call.
LastEmitted(c) == IF Emitted(c) # "none" THEN Emitted(c) ELSE c.before

\* The (handedness, handIndex) pairs start_hold is called with: the defaults
\* of its signature, and a labelled hand.
StartArgs == {<<None, NoIndex>>, <<"Left", 0>>, <<"Right", 1>>}

StartHoldCall ==
    \E a \in StartArgs, env \in HoldEnvs :
        LET h == a[1]
            hi == a[2]
            r == start_hold(hold_state, h, hi, env)
        IN  /\ hold_state' = r.state
            /\ be_call' = [op |-> "start_hold", pre |-> hold_state, env |-> env,
                           before |-> LastEmitted(be_call),
                           handedness |-> h, handIndex |-> hi,
                           ret |-> r.ret, raised |-> r.raised, tried |-> r.tried]
            /\ UNCHANGED <<has_pyautogui, now, stVars, cpVars, dpVars, hmVars, lpVars, geVars, trVars, dcVars, cmVars, rcVars,
                   huVars>>

StopHoldCall ==
    \E env \in HoldEnvs :
        LET r == stop_hold(hold_state, env)
        IN  /\ hold_state' = r.state
            /\ be_call' = [op |-> "stop_hold", pre |-> hold_state, env |-> env,
                           before |-> LastEmitted(be_call),
                           ret |-> r.ret, raised |-> r.raised, tried |-> r.tried]
            /\ UNCHANGED <<has_pyautogui, now, stVars, cpVars, dpVars, hmVars, lpVars, geVars, trVars, dcVars, cmVars, rcVars,
                   huVars>>

(***************************************************************************)
(* mouse_control.py: move_mouse_abs                                        *)
(***************************************************************************)

\* The invocation forms move_mouse_abs tries on ydotool, in the code's order.
YdotoolForms == <<"mousemove", "mouse move", "move", "m">>

\* The outcomes of the four invocations of the tried_forms loop: none
\* succeeds, exactly one does, or all do.
YdotoolFormOutcomes ==
    { [i \in 1 .. Len(YdotoolForms) |-> IF k = 0 \/ i = k THEN "ok" ELSE "fail"] :
        k \in 0 .. Len(YdotoolForms) } \cup
    { [i \in 1 .. Len(YdotoolForms) |-> "fail"] }

\* What the environment answers during one move_mouse_abs call.  yhelp is
\* what `ydotool help` leads _detect_ydotool_mouse_form to: the call raises,
\* no form is recognised, or one of three forms is chosen.
YdotoolEnvs ==
    [ydotool : {"present"},
     yhelp   : {"raise", "none", "mousemove", "mouse move", "m"},
     ydet    : {"ok", "fail"},
     yforms  : YdotoolFormOutcomes,
     ystdin  : {"rc0", "rcfail", "raise"}]

YdotoolMissing ==
    [ydotool |-> "missing", yhelp |-> "none", ydet |-> "fail",
     yforms |-> [i \in 1 .. Len(YdotoolForms) |-> "fail"], ystdin |-> "raise"]

\* A detected form is tried only when the help text names one: the outcome of
\* that invocation is drawn only then.
MoveEnvs ==
    { [py |-> p, xdotool |-> x, y |-> e] :
        p \in LibOutcomes, x \in CliOutcomes,
        e \in {YdotoolMissing} \cup
              {f \in YdotoolEnvs : f.yhelp \in {"raise", "none"} => f.ydet = "fail"} }

\* _detect_ydotool_mouse_form(cli_path): the command form, or None.
detect_ydotool_mouse_form(e) ==
    IF e.yhelp \in {"raise", "none"} THEN None ELSE e.yhelp

\* The loop over tried_forms from form i on: the forms invoked, and whether
\* one of them succeeded (which ends the loop).
RECURSIVE tried_forms(_, _, _)
tried_forms(e, i, acc) ==
    IF i > Len(YdotoolForms) THEN [ok |-> FALSE, tried |-> acc]
    ELSE IF e.yforms[i] = "ok"
         THEN [ok |-> TRUE, tried |-> Append(acc, "ydotool " \o YdotoolForms[i])]
         ELSE tried_forms(e, i + 1, Append(acc, "ydotool " \o YdotoolForms[i]))

\* The ydotool branch of move_mouse_abs: the detected form, then the four
\* common forms, then the command on stdin.
move_ydotool(e) ==
    LET detected == detect_ydotool_mouse_form(e)
        t0 == <<"ydotool help">>
        t1 == IF detected # None THEN Append(t0, "ydotool detected") ELSE t0
        loop == tried_forms(e, 1, t1)
    IN  IF detected # None /\ e.ydet = "ok" THEN [ok |-> TRUE, tried |-> t1]
        ELSE IF loop.ok THEN loop
        ELSE [ok |-> e.ystdin = "rc0", tried |-> Append(loop.tried, "ydotool stdin")]

MoveResult(ret, tried) == [ret |-> ret, raised |-> FALSE, tried |-> tried]

\* move_mouse_abs(x, y): the library, then xdotool, then ydotool.
move_mouse_abs(x, y, env) ==
    LET t1 == IF has_pyautogui THEN <<"pyautogui">> ELSE <<>>
        t2 == t1 \o (IF env.xdotool # "missing" THEN <<"xdotool">> ELSE <<>>)
        yd == move_ydotool(env.y)
    IN  IF has_pyautogui /\ env.py = "ok" THEN MoveResult(TRUE, t1)
        ELSE IF env.xdotool # "missing" /\ env.xdotool = "ok" THEN MoveResult(TRUE, t2)
        ELSE IF env.y.ydotool # "missing" THEN MoveResult(yd.ok, t2 \o yd.tried)
        ELSE MoveResult(FALSE, t2)

\* The pixel positions the calls of the model are made with.
Pixels == {<<1919, 1079>>}

MoveMouseAbsCall ==
    \E p \in Pixels, env \in MoveEnvs :
        LET r == move_mouse_abs(p[1], p[2], env)
        IN  /\ be_call' = [op |-> "move_mouse_abs", pre |-> hold_state, env |-> env,
                           before |-> LastEmitted(be_call),
                           x |-> p[1], y |-> p[2],
                           ret |-> r.ret, raised |-> r.raised, tried |-> r.tried]
            /\ UNCHANGED <<hold_state, has_pyautogui, now, stVars, cpVars, dpVars, hmVars, lpVars, geVars, trVars, dcVars,
                   cmVars, rcVars, huVars>>

BeInit ==
    /\ hold_state = HoldStateInit
    /\ has_pyautogui \in BOOLEAN
    /\ be_call = BeCallInit

\* time.time() at program start: later than any cooldown after the epoch.
StartTime == 100

(***************************************************************************)
(* Result buffers: ResultStore (result_store.py) and latest_result         *)
(* (handRecognition.py), written by recognizer callback threads and read   *)
(* by consumer threads.  Every attribute read or write is one step.        *)
(***************************************************************************)

Writers == {"w1", "w2"}
Readers == {"r1"}
Threads == Writers \cup Readers

EmptyTriple == [gestures |-> <<>>, handedness |-> <<>>, landmarks |-> <<>>]

\* The triples the recognizer callbacks parse from their results; no two
\* share a component, so that a read tells which write it saw.
StoreFrames ==
    { [gestures |-> <<"03_fist">>, handedness |-> <<"Left">>, landmarks |-> <<"lmA">>],
      [gestures |-> <<"06_index", None>>, handedness |-> <<"Right", "Left">>,
       landmarks |-> <<"lmB", "lmC">>] }

RsInit == [gestures |-> <<>>, handedness |-> <<>>, landmarks |-> <<>>, last_update_ts |-> 0]
NoArg == [gestures |-> <<>>, handedness |-> <<>>, landmarks |-> <<>>, ts |-> 0]
NoRead == [api |-> None, gestures |-> <<>>, handedness |-> <<>>, landmarks |-> <<>>,
           ts |-> 0, complete |-> FALSE]

StInit ==
    /\ rs_lock = None
    /\ rs = RsInit
    /\ lr_lock = None
    /\ latest_result = EmptyTriple
    /\ th_pc = [t \in Threads |-> "idle"]
    /\ th_arg = [t \in Writers |-> NoArg]
    /\ th_got = [t \in Readers |-> NoRead]

lock_acquire_noop(l) == TRUE

\* `with lock:` is entered only while no thread holds the lock.
lock_acquire(l) == l = None

Goto(t, label) == th_pc' = [th_pc EXCEPT ![t] = label]

\* ---- ResultStore.set(gestures, handedness, landmarks)
SetBegin(t) ==
    /\ t \in Writers /\ th_pc[t] = "idle"
    /\ \E f \in StoreFrames :
          th_arg' = [th_arg EXCEPT ![t] = [gestures |-> f.gestures, handedness |-> f.handedness,
                                           landmarks |-> f.landmarks, ts |-> now]]
    /\ Goto(t, "set_lock")
    /\ UNCHANGED <<beVars, now, cpVars, dpVars, hmVars, lpVars, rs_lock, rs, lr_lock, latest_result, th_got, geVars, trVars, dcVars,
                   cmVars, rcVars, huVars>>

SetAcquire(t) ==
    /\ th_pc[t] = "set_lock" /\ lock_acquire(rs_lock)
    /\ rs_lock' = t
    /\ Goto(t, "set_gestures")
    /\ UNCHANGED <<beVars, now, cpVars, dpVars, hmVars, lpVars, rs, lr_lock, latest_result, th_arg, th_got, geVars, trVars, dcVars,
                   cmVars, rcVars, huVars>>

SetGestures(t) ==
    /\ th_pc[t] = "set_gestures"
    /\ rs' = [rs EXCEPT !.gestures = th_arg[t].gestures]
    /\ Goto(t, "set_handedness")
    /\ UNCHANGED <<beVars, now, cpVars, dpVars, hmVars, lpVars, rs_lock, lr_lock, latest_result, th_arg, th_got, geVars, trVars, dcVars,
                   cmVars, rcVars, huVars>>

SetHandedness(t) ==
    /\ th_pc[t] = "set_handedness"
    /\ rs' = [rs EXCEPT !.handedness = th_arg[t].handedness]
    /\ Goto(t, "set_landmarks")
    /\ UNCHANGED <<beVars, now, cpVars, dpVars, hmVars, lpVars, rs_lock, lr_lock, latest_result, th_arg, th_got, geVars, trVars, dcVars,
                   cmVars, rcVars, huVars>>

SetLandmarks(t) ==
    /\ th_pc[t] = "set_landmarks"
    /\ rs' = [rs EXCEPT !.landmarks = th_arg[t].landmarks]
    /\ Goto(t, "set_ts")
    /\ UNCHANGED <<beVars, now, cpVars, dpVars, hmVars, lpVars, rs_lock, lr_lock, latest_result, th_arg, th_got, geVars, trVars, dcVars,
                   cmVars, rcVars, huVars>>

SetTs(t) ==
    /\ th_pc[t] = "set_ts"
    /\ rs' = [rs EXCEPT !.last_update_ts = th_arg[t].ts]
    /\ Goto(t, "set_release")
    /\ UNCHANGED <<beVars, now, cpVars, dpVars, hmVars, lpVars, rs_lock, lr_lock, latest_result, th_arg, th_got, geVars, trVars, dcVars,
                   cmVars, rcVars, huVars>>

\* The end of set() without the release of the lock.
SetRelease_keeps_lock(t) ==
    /\ th_pc[t] = "set_release"
    /\ th_arg' = [th_arg EXCEPT ![t] = NoArg]
    /\ Goto(t, "idle")
    /\ UNCHANGED <<beVars, now, cpVars, dpVars, hmVars, lpVars, rs_lock, rs, lr_lock, latest_result,
                   th_got, geVars, trVars, dcVars, cmVars, rcVars, huVars>>

SetRelease(t) ==
    /\ th_pc[t] = "set_release"
    /\ rs_lock' = None
    /\ th_arg' = [th_arg EXCEPT ![t] = NoArg]
    /\ Goto(t, "idle")
    /\ UNCHANGED <<beVars, now, cpVars, dpVars, hmVars, lpVars, rs, lr_lock, latest_result, th_got, geVars, trVars, dcVars,
                   cmVars, rcVars, huVars>>

\* ---- ResultStore.snapshot()
SnapBegin(t) ==
    /\ t \in Readers /\ th_pc[t] = "idle"
    /\ th_got' = [th_got EXCEPT ![t] = [NoRead EXCEPT !.api = "snapshot"]]
    /\ Goto(t, "snap_lock")
    /\ UNCHANGED <<beVars, now, cpVars, dpVars, hmVars, lpVars, rs_lock, rs, lr_lock, latest_result, th_arg, geVars, trVars, dcVars,
                   cmVars, rcVars, huVars>>

SnapAcquire(t) ==
    /\ th_pc[t] = "snap_lock" /\ lock_acquire(rs_lock)
    /\ rs_lock' = t
    /\ Goto(t, "snap_gestures")
    /\ UNCHANGED <<beVars, now, cpVars, dpVars, hmVars, lpVars, rs, lr_lock, latest_result, th_arg, th_got, geVars, trVars, dcVars,
                   cmVars, rcVars, huVars>>

SnapGestures(t) ==
    /\ th_pc[t] = "snap_gestures"
    /\ th_got' = [th_got EXCEPT ![t].gestures = rs.gestures]
    /\ Goto(t, "snap_handedness")
    /\ UNCHANGED <<beVars, now, cpVars, dpVars, hmVars, lpVars, rs_lock, rs, lr_lock, latest_result, th_arg, geVars, trVars, dcVars,
                   cmVars, rcVars, huVars>>

SnapHandedness(t) ==
    /\ th_pc[t] = "snap_handedness"
    /\ th_got' = [th_got EXCEPT ![t].handedness = rs.handedness]
    /\ Goto(t, "snap_landmarks")
    /\ UNCHANGED <<beVars, now, cpVars, dpVars, hmVars, lpVars, rs_lock, rs, lr_lock, latest_result, th_arg, geVars, trVars, dcVars,
                   cmVars, rcVars, huVars>>

SnapLandmarks(t) ==
    /\ th_pc[t] = "snap_landmarks"
    /\ th_got' = [th_got EXCEPT ![t].landmarks = rs.landmarks]
    /\ Goto(t, "snap_ts")
    /\ UNCHANGED <<beVars, now, cpVars, dpVars, hmVars, lpVars, rs_lock, rs, lr_lock, latest_result, th_arg, geVars, trVars, dcVars,
                   cmVars, rcVars, huVars>>

SnapTs(t) ==
    /\ th_pc[t] = "snap_ts"
    /\ th_got' = [th_got EXCEPT ![t].ts = rs.last_update_ts]
    /\ Goto(t, "snap_release")
    /\ UNCHANGED <<beVars, now, cpVars, dpVars, hmVars, lpVars, rs_lock, rs, lr_lock, latest_result, th_arg, geVars, trVars, dcVars,
                   cmVars, rcVars, huVars>>

SnapRelease(t) ==
    /\ th_pc[t] = "snap_release"
    /\ rs_lock' = None
    /\ th_got' = [th_got EXCEPT ![t].complete = TRUE]
    /\ Goto(t, "idle")
    /\ UNCHANGED <<beVars, now, cpVars, dpVars, hmVars, lpVars, rs, lr_lock, latest_result, th_arg, geVars, trVars, dcVars,
                   cmVars, rcVars, huVars>>

\* ---- printResult(result, outputImage, timestampMs): the locked update
PrintBegin(t) ==
    /\ t \in Writers /\ th_pc[t] = "idle"
    /\ \E f \in StoreFrames :
          th_arg' = [th_arg EXCEPT ![t] = [gestures |-> f.gestures, handedness |-> f.handedness,
                                           landmarks |-> f.landmarks, ts |-> 0]]
    /\ Goto(t, "print_lock")
    /\ UNCHANGED <<beVars, now, cpVars, dpVars, hmVars, lpVars, rs_lock, rs, lr_lock, latest_result, th_got, geVars, trVars, dcVars,
                   cmVars, rcVars, huVars>>

PrintAcquire(t) ==
    /\ th_pc[t] = "print_lock" /\ lock_acquire(lr_lock)
    /\ lr_lock' = t
    /\ Goto(t, "print_gestures")
    /\ UNCHANGED <<beVars, now, cpVars, dpVars, hmVars, lpVars, rs_lock, rs, latest_result, th_arg, th_got, geVars, trVars, dcVars,
                   cmVars, rcVars, huVars>>

PrintGestures(t) ==
    /\ th_pc[t] = "print_gestures"
    /\ latest_result' = [latest_result EXCEPT !.gestures = th_arg[t].gestures]
    /\ Goto(t, "print_handedness")
    /\ UNCHANGED <<beVars, now, cpVars, dpVars, hmVars, lpVars, rs_lock, rs, lr_lock, th_arg, th_got, geVars, trVars, dcVars,
                   cmVars, rcVars, huVars>>

PrintHandedness(t) ==
    /\ th_pc[t] = "print_handedness"
    /\ latest_result' = [latest_result EXCEPT !.handedness = th_arg[t].handedness]
    /\ Goto(t, "print_landmarks")
    /\ UNCHANGED <<beVars, now, cpVars, dpVars, hmVars, lpVars, rs_lock, rs, lr_lock, th_arg, th_got, geVars, trVars, dcVars,
                   cmVars, rcVars, huVars>>

PrintLandmarks(t) ==
    /\ th_pc[t] = "print_landmarks"
    /\ latest_result' = [latest_result EXCEPT !.landmarks = th_arg[t].landmarks]
    /\ Goto(t, "print_release")
    /\ UNCHANGED <<beVars, now, cpVars, dpVars, hmVars, lpVars, rs_lock, rs, lr_lock, th_arg, th_got, geVars, trVars, dcVars,
                   cmVars, rcVars, huVars>>

PrintRelease(t) ==
    /\ th_pc[t] = "print_release"
    /\ lr_lock' = None
    /\ th_arg' = [th_arg EXCEPT ![t] = NoArg]
    /\ Goto(t, "idle")
    /\ UNCHANGED <<beVars, now, cpVars, dpVars, hmVars, lpVars, rs_lock, rs, latest_result, th_got, geVars, trVars, dcVars,
                   cmVars, rcVars, huVars>>

\* ---- handRecognition(): the locked read of latest_result in the frame loop
LoopReadBegin(t) ==
    /\ t \in Readers /\ th_pc[t] = "idle"
    /\ th_got' = [th_got EXCEPT ![t] = [NoRead EXCEPT !.api = "latest_result"]]
    /\ Goto(t, "read_lock")
    /\ UNCHANGED <<beVars, now, cpVars, dpVars, hmVars, lpVars, rs_lock, rs, lr_lock, latest_result, th_arg, geVars, trVars, dcVars,
                   cmVars, rcVars, huVars>>

LoopReadAcquire(t) ==
    /\ th_pc[t] = "read_lock" /\ lock_acquire(lr_lock)
    /\ lr_lock' = t
    /\ Goto(t, "read_gestures")
    /\ UNCHANGED <<beVars, now, cpVars, dpVars, hmVars, lpVars, rs_lock, rs, latest_result, th_arg, th_got, geVars, trVars, dcVars,
                   cmVars, rcVars, huVars>>

LoopReadGestures(t) ==
    /\ th_pc[t] = "read_gestures"
    /\ th_got' = [th_got EXCEPT ![t].gestures = latest_result.gestures]
    /\ Goto(t, "read_handedness")
    /\ UNCHANGED <<beVars, now, cpVars, dpVars, hmVars, lpVars, rs_lock, rs, lr_lock, latest_result, th_arg, geVars, trVars, dcVars,
                   cmVars, rcVars, huVars>>

LoopReadHandedness(t) ==
    /\ th_pc[t] = "read_handedness"
    /\ th_got' = [th_got EXCEPT ![t].handedness = latest_result.handedness]
    /\ Goto(t, "read_landmarks")
    /\ UNCHANGED <<beVars, now, cpVars, dpVars, hmVars, lpVars, rs_lock, rs, lr_lock, latest_result, th_arg, geVars, trVars, dcVars,
                   cmVars, rcVars, huVars>>

LoopReadLandmarks(t) ==
    /\ th_pc[t] = "read_landmarks"
    /\ th_got' = [th_got EXCEPT ![t].landmarks = latest_result.landmarks]
    /\ Goto(t, "read_release")
    /\ UNCHANGED <<beVars, now, cpVars, dpVars, hmVars, lpVars, rs_lock, rs, lr_lock, latest_result, th_arg, geVars, trVars, dcVars,
                   cmVars, rcVars, huVars>>

LoopReadRelease(t) ==
    /\ th_pc[t] = "read_release"
    /\ lr_lock' = None
    /\ th_got' = [th_got EXCEPT ![t].complete = TRUE]
    /\ Goto(t, "idle")
    /\ UNCHANGED <<beVars, now, cpVars, dpVars, hmVars, lpVars, rs_lock, rs, latest_result, th_arg, geVars, trVars, dcVars,
                   cmVars, rcVars, huVars>>

\* The bound on the clock of the result-buffer specification.
StoreMaxTime == 1

StoreTick ==
    /\ now < StartTime + StoreMaxTime
    /\ now' = now + 1
    /\ UNCHANGED <<beVars, stVars, cpVars, dpVars, hmVars, lpVars, geVars, trVars, dcVars, cmVars, rcVars, huVars>>

(***************************************************************************)
(* ResultStore by reference: which list objects set() and snapshot() create *)
(* and which they share with their caller.  One thread, whole calls.        *)
(***************************************************************************)

Fields == {"gestures", "handedness", "landmarks"}

\* The list objects: the caller's input lists, the store's own lists, and
\* the lists handed out by snapshot().  A list that nothing names any more is
\* dropped and its place taken by the next list created for the same role.
InList  == [gestures |-> "in_g", handedness |-> "in_h", landmarks |-> "in_l"]
OwnList == [gestures |-> "st_g", handedness |-> "st_h", landmarks |-> "st_l"]
OutList == [gestures |-> "out_g", handedness |-> "out_h", landmarks |-> "out_l"]
ListObjects == {InList[f] : f \in Fields} \cup {OwnList[f] : f \in Fields}
                  \cup {OutList[f] : f \in Fields}

\* What a list of each field can hold (a landmark entry is a hand's landmark
\* object, named by a letter).
Elements(f) ==
    CASE f = "gestures"   -> {"03_fist", None}
      [] f = "handedness" -> {"Left", "Right"}
      [] f = "landmarks"  -> {"lmA", "lmB"}
FieldOf(o) == CHOOSE f \in Fields : o \in {InList[f], OwnList[f], OutList[f]}

\* The bound on the length a list is grown to.
MaxListLen == 2

\* No list passed or returned yet.
NoLists == [gestures |-> None, handedness |-> None, landmarks |-> None]

\* The bound on the number of in-place changes made to lists in one run.
MaxMutations == 2

\* The landmark objects and what a point of one can be.
LandmarkObjects == {"lmA", "lmB", "lmC"}
PointValues == {0, 1}

\* The points seen through a list of landmark objects.
DeepLandmarks(l, points) == [i \in 1 .. Len(l) |-> points[l[i]]]

DcObsInit == [set |-> <<>>, ret |-> <<>>, touched |-> FALSE]

DcInit ==
    /\ lm_points = [o \in LandmarkObjects |-> 0]
    /\ dc_obs = DcObsInit

CpObsInit == [op |-> "init", set |-> EmptyTriple, ret |-> EmptyTriple, ret_ts |-> 0,
              mutated |-> {}, nmut |-> 0]

CpInit ==
    /\ heap = [o \in ListObjects |-> <<>>]
    /\ rs_ref = [gestures |-> OwnList.gestures, handedness |-> OwnList.handedness,
                 landmarks |-> OwnList.landmarks, last_update_ts |-> 0]
    /\ in_ref = NoLists
    /\ out_ref = NoLists
    /\ cp_obs = CpObsInit
    /\ DcInit

\* The values of the three lists a triple of references names.
Deref(h, r) == [f \in Fields |-> h[r[f]]]

\* `self._landmarks = landmarks`: the caller's landmark list itself is stored.
ResultStore_set_keeps_landmarks(h, st, g, ts) ==
    [heap |-> [o \in ListObjects |->
                  IF \E f \in Fields : o = OwnList[f]
                  THEN h[g[FieldOf(o)]] ELSE h[o]],
     rs   |-> [gestures |-> OwnList.gestures, handedness |-> OwnList.handedness,
               landmarks |-> g.landmarks, last_update_ts |-> ts]]

ResultStore_set_keeps_reference(h, st, g, ts) ==
    [heap |-> h,
     rs   |-> [gestures |-> g.gestures, handedness |-> g.handedness,
               landmarks |-> g.landmarks, last_update_ts |-> ts]]

\* ResultStore.set: list(gestures), list(handedness), list(landmarks) are new
\* lists with the arguments' elements; the store names the new lists.
ResultStore_set(h, st, g, ts) ==
    [heap |-> [o \in ListObjects |->
                  IF \E f \in Fields : o = OwnList[f]
                  THEN h[g[FieldOf(o)]] ELSE h[o]],
     rs   |-> [gestures |-> OwnList.gestures, handedness |-> OwnList.handedness,
               landmarks |-> OwnList.landmarks, last_update_ts |-> ts]]

\* ResultStore.snapshot: three new lists with the elements of the store's
\* lists, and the timestamp.
ResultStore_snapshot(h, st) ==
    [heap |-> [o \in ListObjects |->
                  IF \E f \in Fields : o = OutList[f]
                  THEN h[st[FieldOf(o)]] ELSE h[o]],
     ret  |-> [gestures |-> OutList.gestures, handedness |-> OutList.handedness,
               landmarks |-> OutList.landmarks],
     ts   |-> st.last_update_ts]

\* The caller builds three lists and passes them to set().
CopySet ==
    \E f \in StoreFrames \cup {EmptyTriple} :
        LET h1 == [o \in ListObjects |->
                      IF \E x \in Fields : o = InList[x] THEN f[FieldOf(o)] ELSE heap[o]]
            r  == ResultStore_set(h1, rs_ref, InList, now)
        IN  /\ heap' = r.heap
            /\ rs_ref' = r.rs
            /\ in_ref' = InList
            /\ cp_obs' = [cp_obs EXCEPT !.op = "set", !.set = Deref(h1, InList),
                                        !.mutated = {}]
            /\ dc_obs' = [dc_obs EXCEPT !.set = DeepLandmarks(h1[InList.landmarks], lm_points),
                                        !.touched = FALSE]
            /\ UNCHANGED <<out_ref, beVars, now, stVars, dpVars, hmVars, lpVars, geVars, trVars,
                           lm_points, cmVars, rcVars, huVars>>

CopySnapshot ==
    LET r == ResultStore_snapshot(heap, rs_ref)
    IN  /\ heap' = r.heap
        /\ out_ref' = r.ret
        /\ cp_obs' = [cp_obs EXCEPT !.op = "snapshot", !.ret = Deref(r.heap, r.ret),
                                    !.ret_ts = r.ts]
        /\ dc_obs' = [dc_obs EXCEPT !.ret = DeepLandmarks(r.heap[r.ret.landmarks], lm_points)]
        /\ UNCHANGED <<rs_ref, in_ref, beVars, now, stVars, dpVars, hmVars, lpVars, geVars, trVars,
                       lm_points, cmVars, rcVars, huVars>>

\* The ways a list is changed in place: an element added, the last one
\* removed, one replaced.
Mutations(l, f) ==
    (IF Len(l) < MaxListLen THEN {Append(l, e) : e \in Elements(f)} ELSE {})
    \cup (IF Len(l) > 0 THEN {SubSeq(l, 1, Len(l) - 1)} ELSE {})
    \cup UNION {{[l EXCEPT ![i] = e] : e \in Elements(f) \ {l[i]}} : i \in 1 .. Len(l)}

\* The caller changes one of the lists it passed to set().
MutateInput ==
    /\ in_ref # NoLists
    /\ cp_obs.nmut < MaxMutations
    /\ \E f \in Fields : \E l \in Mutations(heap[in_ref[f]], f) :
          heap' = [heap EXCEPT ![in_ref[f]] = l]
    /\ cp_obs' = [cp_obs EXCEPT !.op = "mutate", !.mutated = @ \cup {"input"},
                                !.nmut = @ + 1]
    /\ UNCHANGED <<rs_ref, in_ref, out_ref, beVars, now, stVars, dpVars, hmVars, lpVars, geVars, trVars, dcVars,
                   cmVars, rcVars, huVars>>

\* The consumer changes one of the lists a snapshot() returned.
MutateReturned ==
    /\ out_ref # NoLists
    /\ cp_obs.nmut < MaxMutations
    /\ \E f \in Fields : \E l \in Mutations(heap[out_ref[f]], f) :
          heap' = [heap EXCEPT ![out_ref[f]] = l]
    /\ cp_obs' = [cp_obs EXCEPT !.op = "mutate", !.mutated = @ \cup {"returned"},
                                !.nmut = @ + 1]
    /\ UNCHANGED <<rs_ref, in_ref, out_ref, beVars, now, stVars, dpVars, hmVars, lpVars, geVars, trVars, dcVars,
                   cmVars, rcVars, huVars>>

\* The caller changes a point of a landmark object that is in the landmark
\* list it passed to set().
MutatePoint ==
    /\ in_ref # NoLists
    /\ cp_obs.nmut < MaxMutations
    /\ \E i \in DOMAIN heap[in_ref.landmarks] : \E v \in PointValues :
          /\ v # lm_points[heap[in_ref.landmarks][i]]
          /\ lm_points' = [lm_points EXCEPT ![heap[in_ref.landmarks][i]] = v]
    /\ cp_obs' = [cp_obs EXCEPT !.op = "mutate", !.nmut = @ + 1]
    /\ dc_obs' = [dc_obs EXCEPT !.touched = TRUE]
    /\ UNCHANGED <<heap, rs_ref, in_ref, out_ref, beVars, now, stVars, dpVars, hmVars, lpVars,
                   geVars, trVars, cmVars, rcVars, huVars>>

(***************************************************************************)
(* Gesture dispatch: actionHandler.handleGesture and the actions bound in  *)
(* gestures.py.  What a Python call returns is "True", "False" or "None".  *)
(***************************************************************************)

\* dict.get(k, default) on a dictionary held as a function on its keys.
Get(dict, k, default) == IF k \in DOMAIN dict THEN dict[k] ELSE default
\* dict[k] = v
Put(dict, k, v) == [x \in DOMAIN dict \cup {k} |-> IF x = k THEN v ELSE dict[x]]
EmptyDict == [x \in {} |-> 0]

\* GESTURE_COOLDOWNS, in tenths of a second.
GESTURE_COOLDOWNS ==
    [g \in {"Open_Palm", "Closed_Fist", "Thumb_Up", "Thumb_Down", "Peace", "02_l", "03_fist"} |->
        CASE g \in {"Open_Palm", "Closed_Fist"} -> 10
          [] g = "03_fist" -> 1
          [] OTHER -> 0]

\* GESTURE_ACTIONS: the function bound to each gesture name.
GESTURE_ACTIONS ==
    [g \in {"Open_Palm", "Closed_Fist", "Thumb_Up", "Thumb_Down", "Victory", "02_l",
            "03_fist", "OK"} |->
        CASE g = "Open_Palm"   -> "action_open_palm"
          [] g = "Closed_Fist" -> "action_closed_fist"
          [] g = "Thumb_Up"    -> "action_thumb_up"
          [] g = "Thumb_Down"  -> "action_thumb_down"
          [] g = "Victory"     -> "action_victory"
          [] g = "02_l"        -> "action_l"
          [] g = "03_fist"     -> "action_fist"
          [] g = "OK"          -> "action_ok"]

GestureNames == DOMAIN GESTURE_COOLDOWNS \cup DOMAIN GESTURE_ACTIONS

\* What an action leaves behind: its return value, gestures._last_trigger_time,
\* _hold_state, and the commands it ran.
ActResult(ret, gltt, hs, cmds) == [ret |-> ret, gltt |-> gltt, hold |-> hs, cmds |-> cmds]

\* action_closed_fist: play-pause unless done within its own cooldown.
action_closed_fist(gltt, hs, t) ==
    IF t - Get(gltt, "Closed_Fist", 0) > Get(GESTURE_COOLDOWNS, "Closed_Fist", 10)
    THEN ActResult("None", Put(gltt, "Closed_Fist", t), hs, <<"playerctl play-pause">>)
    ELSE ActResult("None", gltt, hs, <<>>)

\* action_fist: start_hold, then the trigger time of gestures.py; returns False.
action_fist(gltt, hs, handedness, handIndex, t, env) ==
    ActResult("False", Put(gltt, "03_fist", t), start_hold(hs, handedness, handIndex, env).state,
              <<"start_hold">>)

\* The call GESTURE_ACTIONS[gesture](handedness, handIndex).
CallAction(name, gltt, hs, handedness, handIndex, t, env) ==
    CASE name = "action_open_palm"   -> ActResult("False", gltt, hs, <<>>)
      [] name = "action_thumb_up"    -> ActResult("None", gltt, hs, <<"pactl +5%">>)
      [] name = "action_thumb_down"  -> ActResult("None", gltt, hs, <<"pactl -5%">>)
      [] name = "action_closed_fist" -> action_closed_fist(gltt, hs, t)
      [] name = "action_victory"     -> ActResult("True", gltt, hs, <<>>)
      [] name = "action_fist"        -> action_fist(gltt, hs, handedness, handIndex, t, env)
      [] name = "action_ok"          -> ActResult("None", gltt, hs, <<>>)
      [] name = "action_l"           -> ActResult("None", gltt, hs, <<>>)

\* A dispatch's result: the two trigger-time dictionaries, _hold_state, the
\* value returned and the actions invoked.
DpResult(ltt, gltt, hs, ret, invoked) ==
    [ltt |-> ltt, gltt |-> gltt, hold |-> hs, ret |-> ret, invoked |-> invoked]

\* The action invoked when exactly the cooldown has passed.
handleGesture_fires_at_cooldown(ltt, gltt, hs, gesture, handedness, handIndex, t, env) ==
    IF handedness # None /\ handIndex # NoIndex /\ gesture \in DOMAIN GESTURE_ACTIONS
       /\ t - Get(ltt, gesture, 0) >= Get(GESTURE_COOLDOWNS, gesture, 0)
    THEN LET a == CallAction(GESTURE_ACTIONS[gesture], gltt, hs, handedness, handIndex, t, env)
         IN  DpResult(Put(ltt, gesture, t), a.gltt, a.hold, a.ret, <<GESTURE_ACTIONS[gesture]>>)
    ELSE DpResult(ltt, gltt, hs, "False", <<>>)

\* The trigger time recorded for a gesture that has no action.
handleGesture_stamps_unbound(ltt, gltt, hs, gesture, handedness, handIndex, t, env) ==
    IF handedness # None /\ handIndex # NoIndex
       /\ t - Get(ltt, gesture, 0) > Get(GESTURE_COOLDOWNS, gesture, 0)
    THEN IF gesture \in DOMAIN GESTURE_ACTIONS
         THEN LET a == CallAction(GESTURE_ACTIONS[gesture], gltt, hs, handedness, handIndex,
                                  t, env)
              IN  DpResult(Put(ltt, gesture, t), a.gltt, a.hold, a.ret,
                           <<GESTURE_ACTIONS[gesture]>>)
         ELSE DpResult(Put(ltt, gesture, t), gltt, hs, "False", <<>>)
    ELSE DpResult(ltt, gltt, hs, "False", <<>>)

handleGesture_no_cooldown(ltt, gltt, hs, gesture, handedness, handIndex, t, env) ==
    IF handedness # None /\ handIndex # NoIndex /\ gesture \in DOMAIN GESTURE_ACTIONS
    THEN LET a == CallAction(GESTURE_ACTIONS[gesture], gltt, hs, handedness, handIndex, t, env)
         IN  DpResult(Put(ltt, gesture, t), a.gltt, a.hold, a.ret, <<GESTURE_ACTIONS[gesture]>>)
    ELSE DpResult(ltt, gltt, hs, "False", <<>>)

\* handleGesture(gesture, handedness, handIndex) at clock reading t.
handleGesture(ltt, gltt, hs, gesture, handedness, handIndex, t, env) ==
    LET cooldown == Get(GESTURE_COOLDOWNS, gesture, 0)
        last_time == Get(ltt, gesture, 0)
    IN  IF handedness # None /\ handIndex # NoIndex
           /\ gesture \in DOMAIN GESTURE_ACTIONS /\ t - last_time > cooldown
        THEN LET a == CallAction(GESTURE_ACTIONS[gesture], gltt, hs, handedness, handIndex,
                                 t, env)
             IN  DpResult(Put(ltt, gesture, t), a.gltt, a.hold, a.ret,
                          <<GESTURE_ACTIONS[gesture]>>)
        ELSE DpResult(ltt, gltt, hs, "False", <<>>)

\* The (handedness, handIndex) a dispatch is made with.
DispatchArgs == {<<"Left", 0>>, <<"Right", 1>>, <<None, 0>>, <<"Left", NoIndex>>}

\* No time: the action was never invoked.
NoTime == 0 - 1

DpObsInit == [gesture |-> None, handedness |-> None, handIndex |-> NoIndex, at |-> NoTime,
              prev |-> NoTime, invoked |-> <<>>, ret |-> "None", ltt |-> EmptyDict]

\* The recognizer of a run reports two gesture names: the exit gesture and
\* one other.
Repertoires == {{g, "Victory"} : g \in GestureNames \ {"Victory"}}

DpInit ==
    /\ ah_last_trigger_time = EmptyDict
    /\ g_last_trigger_time = EmptyDict
    /\ dp_repertoire \in Repertoires
    /\ dp_invoked_at = [g \in GestureNames |-> NoTime]
    /\ dp_obs = DpObsInit

\* The environment's answers matter to a dispatch only where its action
\* reaches the backend.
DispatchEnvs(g) ==
    IF Get(GESTURE_ACTIONS, g, None) = "action_fist" THEN HoldEnvs
    ELSE {[py |-> "ok", xdotool |-> "missing", ydotool |-> "missing"]}

Dispatch ==
    \E g \in dp_repertoire, a \in DispatchArgs : \E env \in DispatchEnvs(g) :
        LET r == handleGesture(ah_last_trigger_time, g_last_trigger_time, hold_state,
                               g, a[1], a[2], now, env)
        IN  /\ ah_last_trigger_time' = r.ltt
            /\ g_last_trigger_time' = r.gltt
            /\ hold_state' = r.hold
            /\ dp_invoked_at' = IF r.invoked # <<>> THEN [dp_invoked_at EXCEPT ![g] = now]
                                 ELSE dp_invoked_at
            /\ dp_obs' = [gesture |-> g, handedness |-> a[1], handIndex |-> a[2], at |-> now,
                          prev |-> dp_invoked_at[g], invoked |-> r.invoked, ret |-> r.ret,
                          ltt |-> ah_last_trigger_time]
            /\ UNCHANGED <<has_pyautogui, be_call, now, stVars, cpVars, dp_repertoire, hmVars, lpVars, geVars, trVars, dcVars,
                   cmVars, rcVars, huVars>>

\* The bound on the time that passes in a run of dispatches.
MaxElapsed == 11

\* Time passes; the observation of the last dispatch is of this clock reading.
DispatchTick ==
    /\ now < StartTime + MaxElapsed
    /\ now' = now + 1
    /\ dp_obs' = DpObsInit
    /\ UNCHANGED <<beVars, stVars, cpVars, ah_last_trigger_time, g_last_trigger_time,
                   dp_repertoire, hmVars, lpVars, dp_invoked_at, geVars, trVars, dcVars, cmVars,
                   rcVars, huVars>>

(***************************************************************************)
(* HoldManager (hold_manager.py)                                           *)
(***************************************************************************)

\* hold_gesture_name and restart_cooldown (tenths of a second), as the
\* constructor defaults them.
HoldGesture == "03_fist"
RestartCooldown == 1

\* The start hook: missing (not callable), or callable with the signature
\* (handedness=, handIndex=), (a, b) or (a).  The stop hook: missing or callable.
StartKinds == {"missing", "kwargs", "positional2", "positional1"}
StopKinds == {"missing", "callable"}

\* The three forms update() calls the start hook in, in order.
CallForms == <<"kwargs", "positional", "index">>

\* The call form binds to the hook's parameters (otherwise: TypeError, the
\* hook's body does not run).
Binds(kind, form) ==
    \/ kind = "kwargs"
    \/ kind = "positional2" /\ form = "positional"
    \/ kind = "positional1" /\ form = "index"

\* What the body of a hook does when it runs: returns a true or a false
\* value, raises TypeError, or raises another exception.
BodyOutcomes == {"True", "False", "TypeError", "raise"}
StartOutcomes ==
    {[kwargs |-> o, positional |-> "True", index |-> "True"] : o \in {"True", "False", "raise"}}
    \cup {[kwargs |-> "TypeError", positional |-> o, index |-> "True"] : o \in {"True", "False"}}
    \cup {[kwargs |-> "TypeError", positional |-> "raise", index |-> o] :
              o \in {"True", "False", "raise"}}
\* The outcomes to tell apart for a hook of a given signature: those of the
\* call forms that reach its body.
StartOutcomesFor(kind) ==
    IF kind = "kwargs" THEN StartOutcomes
    ELSE {[kwargs |-> "TypeError", positional |-> o, index |-> o] :
             o \in {"True", "False", "raise"}}
StopOutcomes == {"True", "False", "raise"}

\* One call of a hook made by the manager.
HookCall(op, hi, form, hand_name, ran, outcome) ==
    [op |-> op, hand |-> hi, form |-> form, handedness |-> hand_name, ran |-> ran,
     outcome |-> outcome]

StartCall(kind, form, hand_name, hi, os) ==
    HookCall("start_hold", hi, form, hand_name, Binds(kind, form),
             IF Binds(kind, form) THEN os[form] ELSE "TypeError")

\* Lines 115-129: the keyword call; on TypeError the positional call; on any
\* exception of that the call with the index alone; on any exception of that
\* None.  An exception of the keyword call other than TypeError leaves the
\* block ("raised").
start_cascade(kind, hand_name, hi, os) ==
    LET c1 == StartCall(kind, "kwargs", hand_name, hi, os)
        c2 == StartCall(kind, "positional", hand_name, hi, os)
        c3 == StartCall(kind, "index", hand_name, hi, os)
    IN  IF c1.outcome \in {"True", "False"} THEN [calls |-> <<c1>>, result |-> c1.outcome]
        ELSE IF c1.outcome = "raise" THEN [calls |-> <<c1>>, result |-> "raised"]
        ELSE IF c2.outcome \in {"True", "False"}
             THEN [calls |-> <<c1, c2>>, result |-> c2.outcome]
        ELSE IF c3.outcome \in {"True", "False"}
             THEN [calls |-> <<c1, c2, c3>>, result |-> c3.outcome]
        ELSE [calls |-> <<c1, c2, c3>>, result |-> "None"]

\* dict.pop(k, None)
Pop(dict, k) == [x \in DOMAIN dict \ {k} |-> dict[x]]
\* dict.setdefault(k, v)
SetDefault(dict, k, v) == IF k \in DOMAIN dict THEN dict ELSE Put(dict, k, v)

\* Line 109 and line 149.
Entering(prev, curr) == prev # HoldGesture /\ curr = HoldGesture
Exiting(prev, curr) == prev = HoldGesture /\ curr # HoldGesture

\* The manager's three dictionaries and the hook calls made so far.
HmState(prev, ts, holding, calls) ==
    [prev |-> prev, ts |-> ts, holding |-> holding, calls |-> calls]

\* The i-th element of a sequence indexed from 0, None beyond its end.
At(seq, i) == IF i < Len(seq) THEN seq[i + 1] ELSE None

\* The loop body without lines 167-168: the time of the last press attempt
\* outlives the exit.
update_hand_keeps_ts(st, hi, gestures, handedness, t, skind, pkind, so, xo) ==
    LET prev == Get(st.prev, hi, None)
        curr == At(gestures, hi)
        hand_name == At(handedness, hi)
        r == start_cascade(skind, hand_name, hi, so)
        entered ==
            IF Entering(prev, curr) /\ t - Get(st.ts, hi, 0) >= RestartCooldown
            THEN IF skind # "missing"
                 THEN HmState(st.prev, Put(st.ts, hi, t),
                              CASE r.result = "True" -> Put(st.holding, hi, TRUE)
                                [] r.result \in {"False", "None"} ->
                                       SetDefault(st.holding, hi, TRUE)
                                [] OTHER -> st.holding,
                              st.calls \o r.calls)
                 ELSE HmState(st.prev, Put(st.ts, hi, t), st.holding, st.calls)
            ELSE st
        exited ==
            IF Exiting(prev, curr)
            THEN IF pkind # "missing"
                 THEN HmState(entered.prev, entered.ts,
                              IF xo # "raise" THEN Put(entered.holding, hi, FALSE)
                              ELSE entered.holding,
                              entered.calls
                                  \o <<HookCall("stop_hold", hi, "noargs", None, TRUE, xo)>>)
                 ELSE HmState(entered.prev, entered.ts, entered.holding,
                              entered.calls)
            ELSE entered
    IN  HmState(IF curr # None THEN Put(exited.prev, hi, curr) ELSE Pop(exited.prev, hi),
                exited.ts, exited.holding, exited.calls)

\* The loop body without lines 173-175: the previous gesture of a hand that
\* shows no gesture is kept.
update_hand_keeps_prev(st, hi, gestures, handedness, t, skind, pkind, so, xo) ==
    LET prev == Get(st.prev, hi, None)
        curr == At(gestures, hi)
        hand_name == At(handedness, hi)
        r == start_cascade(skind, hand_name, hi, so)
        entered ==
            IF Entering(prev, curr) /\ t - Get(st.ts, hi, 0) >= RestartCooldown
            THEN IF skind # "missing"
                 THEN HmState(st.prev, Put(st.ts, hi, t),
                              CASE r.result = "True" -> Put(st.holding, hi, TRUE)
                                [] r.result \in {"False", "None"} ->
                                       SetDefault(st.holding, hi, TRUE)
                                [] OTHER -> st.holding,
                              st.calls \o r.calls)
                 ELSE HmState(st.prev, Put(st.ts, hi, t), st.holding, st.calls)
            ELSE st
        exited ==
            IF Exiting(prev, curr)
            THEN IF pkind # "missing"
                 THEN HmState(entered.prev, Pop(entered.ts, hi),
                              IF xo # "raise" THEN Put(entered.holding, hi, FALSE)
                              ELSE entered.holding,
                              entered.calls
                                  \o <<HookCall("stop_hold", hi, "noargs", None, TRUE, xo)>>)
                 ELSE HmState(entered.prev, Pop(entered.ts, hi), entered.holding,
                              entered.calls)
            ELSE entered
    IN  HmState(IF curr # None THEN Put(exited.prev, hi, curr) ELSE exited.prev,
                exited.ts, exited.holding, exited.calls)

\* Lines 104-175: one iteration of update()'s loop, for hand index hi.  so and
\* xo are what the start hook and the stop hook do if called for this hand.
update_hand(st, hi, gestures, handedness, t, skind, pkind, so, xo) ==
    LET prev == Get(st.prev, hi, None)
        curr == At(gestures, hi)
        hand_name == At(handedness, hi)
        r == start_cascade(skind, hand_name, hi, so)
        entered ==
            IF Entering(prev, curr) /\ t - Get(st.ts, hi, 0) >= RestartCooldown
            THEN IF skind # "missing"
                 THEN HmState(st.prev, Put(st.ts, hi, t),
                              CASE r.result = "True" -> Put(st.holding, hi, TRUE)
                                [] r.result \in {"False", "None"} ->
                                       SetDefault(st.holding, hi, TRUE)
                                [] OTHER -> st.holding,
                              st.calls \o r.calls)
                 ELSE HmState(st.prev, Put(st.ts, hi, t), st.holding, st.calls)
            ELSE st
        exited ==
            IF Exiting(prev, curr)
            THEN IF pkind # "missing"
                 THEN HmState(entered.prev, Pop(entered.ts, hi),
                              IF xo # "raise" THEN Put(entered.holding, hi, FALSE)
                              ELSE entered.holding,
                              entered.calls
                                  \o <<HookCall("stop_hold", hi, "noargs", None, TRUE, xo)>>)
                 ELSE HmState(entered.prev, Pop(entered.ts, hi), entered.holding,
                              entered.calls)
            ELSE entered
    IN  HmState(IF curr # None THEN Put(exited.prev, hi, curr) ELSE Pop(exited.prev, hi),
                exited.ts, exited.holding, exited.calls)

\* What `except Exception` catches of the things a hook's body raises.
ExceptException == {"TypeError", "raise"}

\* Whether something raised inside a try block leaves it, given what the
\* block's except clause catches.
Escapes(outcome, caught) == outcome \in {"TypeError", "raise"} /\ outcome \notin caught

\* The call of the stop hook outside a try block.
update_hand_raises_stop_unguarded(st, hi, gestures, handedness, t, skind, pkind, so, xo) ==
    Exiting(Get(st.prev, hi, None), At(gestures, hi)) /\ pkind # "missing"
    /\ Escapes(xo, {})

\* Whether the iteration of update()'s loop for hand hi raises: the start
\* hook is called inside the try of lines 114-143, whose except clause takes
\* what the cascade of lines 115-129 lets through; the stop hook inside the
\* try of lines 152-159; the sequences are read only below their length
\* (lines 106-107).
update_hand_raises(st, hi, gestures, handedness, t, skind, pkind, so, xo) ==
    LET prev == Get(st.prev, hi, None)
        curr == At(gestures, hi)
        r == start_cascade(skind, At(handedness, hi), hi, so)
    IN  \/ /\ Entering(prev, curr) /\ t - Get(st.ts, hi, 0) >= RestartCooldown
           /\ skind # "missing"
           /\ r.result = "raised" /\ Escapes("raise", ExceptException)
        \/ /\ Exiting(prev, curr) /\ pkind # "missing"
           /\ Escapes(xo, ExceptException)

Max(a, b) == IF a >= b THEN a ELSE b

\* Lines 93-100: the hand indexes update() iterates over, in order.
RECURSIVE Sorted(_)
Sorted(S) ==
    IF S = {} THEN <<>>
    ELSE LET m == CHOOSE x \in S : \A y \in S : x <= y IN <<m>> \o Sorted(S \ {m})

Indices(prev, gestures, landmarks) ==
    LET max_hands == Max(Len(gestures), Len(landmarks))
    IN  IF max_hands = 0 /\ DOMAIN prev # {} THEN Sorted(DOMAIN prev)
        ELSE [i \in 1 .. max_hands |-> i - 1]

\* update(gestures, handedness, landmarks) at clock reading t.
RECURSIVE update_from(_, _, _, _, _, _, _, _, _, _)
update_from(st, idx, k, gestures, handedness, t, skind, pkind, so, xo) ==
    IF k > Len(idx) THEN st
    ELSE update_from(update_hand(st, idx[k], gestures, handedness, t, skind, pkind,
                                 Get(so, idx[k], [kwargs |-> "True", positional |-> "True",
                                                   index |-> "True"]),
                                 Get(xo, idx[k], "True")),
                     idx, k + 1, gestures, handedness, t, skind, pkind, so, xo)

update(st, gestures, handedness, landmarks, t, skind, pkind, so, xo) ==
    update_from(st, Indices(st.prev, gestures, landmarks), 1, gestures, handedness, t,
                skind, pkind, so, xo)

\* Whether update() raises: whether the iteration for one of its hands does.
update_raises(st, gestures, handedness, landmarks, t, skind, pkind, so, xo) ==
    LET idx == Indices(st.prev, gestures, landmarks)
    IN  \E k \in 1 .. Len(idx) :
            update_hand_raises(st, idx[k], gestures, handedness, t, skind, pkind,
                               Get(so, idx[k], [kwargs |-> "True", positional |-> "True",
                                                 index |-> "True"]),
                               Get(xo, idx[k], "True"))

\* release_all(): without a callable stop hook only _holding is cleared;
\* otherwise stop_hold() is called once and, whatever it does, the three
\* dictionaries are cleared.
release_all(st, pkind, xo) ==
    IF pkind = "missing" THEN HmState(st.prev, st.ts, EmptyDict, st.calls)
    ELSE HmState(EmptyDict, EmptyDict, EmptyDict,
                 st.calls \o <<HookCall("stop_hold", NoIndex, "noargs", None, TRUE, xo)>>)

\* ---- Observation of the hook calls
\* A press attempt for hand h starts with the keyword call; a release attempt
\* for hand h is a stop_hold call made for h or (release_all) for all hands.
IsPress(c, h) == c.op = "start_hold" /\ c.form = "kwargs" /\ c.hand = h
IsRelease(c, h) == c.op = "stop_hold" /\ c.hand \in {h, NoIndex}

\* A call for hand h that reached the body of the start hook.
IsPressCall(c, h) == c.op = "start_hold" /\ c.ran /\ c.hand = h

\* The last press or release for hand h after the calls, old being the one
\* before; P tells what counts as a press.
LastEvOf(P(_, _), calls, h, old) ==
    LET I == {i \in 1 .. Len(calls) : P(calls[i], h) \/ IsRelease(calls[i], h)}
        m == CHOOSE i \in I : \A j \in I : j <= i
    IN  IF I = {} THEN old ELSE IF P(calls[m], h) THEN "press" ELSE "release"
LastEv(calls, h, old) == LastEvOf(IsPress, calls, h, old)

\* Among the calls is a press for h whose preceding press or release for h is
\* a press.
DoublePressOf(P(_, _), calls, h, old) ==
    \E i \in 1 .. Len(calls) :
        P(calls[i], h) /\ LastEvOf(P, SubSeq(calls, 1, i - 1), h, old) = "press"
DoublePress(calls, h, old) == DoublePressOf(IsPress, calls, h, old)
DoublePressCall(calls, h, old) == DoublePressOf(IsPressCall, calls, h, old)

HmObsInit == [op |-> "init", presses |-> {}, pre_ev |-> [h \in HandIndexes |-> "none"],
              double |-> {}, double_calls |-> {}, raised |-> FALSE]

\* The bound up to which the hold frames of a pattern are counted.
MaxHoldFrames == 3

PatOff == [stage |-> "off", n |-> 0, events |-> <<>>]

\* Hand 0's progress through [no gesture, hold gesture n times, no gesture]
\* after a frame showing gesture g0 for hand 0 during which the calls were made.
PatNext(pat, g0, calls) ==
    CASE g0 = None ->
            IF pat.stage = "holding"
            THEN [stage |-> "done", n |-> pat.n, events |-> pat.events \o calls]
            ELSE [stage |-> "armed", n |-> 0, events |-> <<>>]
      [] g0 = HoldGesture ->
            IF pat.stage \in {"armed", "done"}
            THEN [stage |-> "holding", n |-> 1, events |-> calls]
            ELSE IF pat.stage = "holding"
            THEN [stage |-> "holding",
                  n |-> IF pat.n < MaxHoldFrames THEN pat.n + 1 ELSE pat.n,
                  events |-> pat.events \o calls]
            ELSE PatOff
      [] OTHER -> PatOff

\* No hook has been called for a hand.
NoHook == [op |-> "none", outcome |-> "none"]

\* What is recorded of a call of update(): its arguments, the clock, the
\* manager's dictionaries before it, the hook calls it made in order, and
\* whether it raised.
HuObs(op, f, t, st, calls, raised) ==
    [op |-> op, gestures |-> f.gestures, handedness |-> f.handedness,
     landmarks |-> f.landmarks, at |-> t, prev |-> st.prev, ts |-> st.ts,
     holding |-> st.holding, calls |-> calls, raised |-> raised,
     pressed_at |-> EmptyDict, last_hook |-> [h \in HandIndexes |-> NoHook]]
\* The clock reading of the last press attempt of each hand, up to and
\* including the call recorded in obs.
PressTimes(obs) ==
    LET pressed == {h \in HandIndexes :
                      \E i \in 1 .. Len(obs.calls) :
                          obs.calls[i].op = "start_hold" /\ obs.calls[i].hand = h}
    IN  [h \in DOMAIN obs.pressed_at \cup pressed |->
            IF h \in pressed THEN obs.at ELSE obs.pressed_at[h]]
\* The last hook call made for each hand, up to and including the call
\* recorded in obs, and what it returned or raised.
LastHooks(obs) ==
    [h \in HandIndexes |->
        LET I == {i \in 1 .. Len(obs.calls) : obs.calls[i].hand = h}
            m == CHOOSE i \in I : \A j \in I : j <= i
        IN  IF I = {} THEN obs.last_hook[h]
            ELSE [op |-> obs.calls[m].op, outcome |-> obs.calls[m].outcome]]
NoFrame == [gestures |-> <<>>, handedness |-> <<>>, landmarks |-> <<>>]
HuInit ==
    hu_obs = HuObs("init", NoFrame, 0, HmState(EmptyDict, EmptyDict, EmptyDict, <<>>), <<>>,
                   FALSE)

HmInit ==
    /\ hm_start_kind \in StartKinds
    /\ hm_stop_kind \in StopKinds
    /\ hm_prev = EmptyDict
    /\ hm_last_start_ts = EmptyDict
    /\ hm_holding = EmptyDict
    /\ hm_last_ev = [h \in HandIndexes |-> "none"]
    /\ hm_obs = HmObsInit
    /\ hm_pat = PatOff

\* The manager of a specification that does not use it.
HmIdle == HmInit /\ hm_start_kind = "kwargs" /\ hm_stop_kind = "callable"

\* The frames fed to update(): up to NumHands gestures, the handedness list
\* absent or full, up to NumHands landmark lists.
HoldGestures == {None, HoldGesture, "06_index"}
HoldFrames ==
    [gestures : UNION {[1 .. n -> HoldGestures] : n \in 0 .. NumHands},
     handedness : {<<>>, <<"Left", "Right">>},
     landmarks : {[i \in 1 .. n |-> "lm"] : n \in 0 .. NumHands}]
\* The frames of a run in which one hand is fed.
OneHandFrames ==
    {f \in HoldFrames : Len(f.gestures) <= 1 /\ Len(f.landmarks) <= 1}

\* One call of update(): the hooks' outcomes are drawn for the hands whose
\* hook this call invokes.
UpdateManager(f, track, observe) ==
    LET idx == Indices(hm_prev, f.gestures, f.landmarks)
        hands == {idx[i] : i \in 1 .. Len(idx)}
        starts == {h \in hands :
                     /\ hm_start_kind # "missing"
                     /\ Entering(Get(hm_prev, h, None), At(f.gestures, h))
                     /\ now - Get(hm_last_start_ts, h, 0) >= RestartCooldown}
        stops == {h \in hands :
                     /\ hm_stop_kind # "missing"
                     /\ Exiting(Get(hm_prev, h, None), At(f.gestures, h))}
    IN  \E so \in [starts -> StartOutcomesFor(hm_start_kind)], xo \in [stops -> StopOutcomes] :
            \E r \in {update(HmState(hm_prev, hm_last_start_ts, hm_holding, <<>>),
                              f.gestures, f.handedness, f.landmarks, now,
                              hm_start_kind, hm_stop_kind, so, xo)} :
                /\ hm_prev' = r.prev
                /\ hm_last_start_ts' = r.ts
                /\ hm_holding' = r.holding
                /\ hm_last_ev' = IF observe THEN hm_last_ev
                                 ELSE [h \in HandIndexes |-> LastEv(r.calls, h, hm_last_ev[h])]
                /\ hm_obs' = IF observe THEN hm_obs ELSE
                             [op |-> "update",
                              presses |-> {h \in HandIndexes :
                                             \E i \in 1 .. Len(r.calls) : IsPress(r.calls[i], h)},
                              pre_ev |-> hm_last_ev,
                              double |-> {h \in HandIndexes :
                                            DoublePress(r.calls, h, hm_last_ev[h])},
                              double_calls |-> {h \in HandIndexes :
                                            DoublePressCall(r.calls, h, hm_last_ev[h])},
                              raised |-> update_raises(
                                  HmState(hm_prev, hm_last_start_ts, hm_holding, <<>>),
                                  f.gestures, f.handedness, f.landmarks, now,
                                  hm_start_kind, hm_stop_kind, so, xo)]
                /\ hm_pat' = IF track THEN PatNext(hm_pat, At(f.gestures, 0), r.calls)
                             ELSE hm_pat
                /\ hu_obs' = IF observe
                             THEN [HuObs("update", f, now,
                                        HmState(hm_prev, hm_last_start_ts, hm_holding, <<>>),
                                        r.calls,
                                        update_raises(
                                            HmState(hm_prev, hm_last_start_ts, hm_holding, <<>>),
                                            f.gestures, f.handedness, f.landmarks, now,
                                            hm_start_kind, hm_stop_kind, so, xo))
                                   EXCEPT !.pressed_at = PressTimes(hu_obs),
                                          !.last_hook = LastHooks(hu_obs)]
                             ELSE hu_obs
                /\ UNCHANGED <<hm_start_kind, hm_stop_kind>>

\* A call of update() on its own.
UpdateWith(f, track, observe) ==
    /\ UpdateManager(f, track, observe)
    /\ UNCHANGED <<lpVars, beVars, now, stVars, cpVars, dpVars, geVars, trVars, dcVars,
                   cmVars, rcVars>>

UpdateCall == \E f \in HoldFrames : UpdateWith(f, FALSE, FALSE)
UpdateOneHand == \E f \in OneHandFrames : UpdateWith(f, TRUE, FALSE)
\* The frames of the calls recorded in full: hand 0 shows no gesture or a
\* gesture other than the hold gesture, hand 1 anything or is not reported;
\* the landmark list empty or full; the handedness list one entry long
\* (present for hand 0, short for hand 1).
ObservedFrames ==
    {f \in HoldFrames :
        /\ Len(f.landmarks) \in {0, NumHands}
        /\ Len(f.gestures) > 0 => f.gestures[1] # HoldGesture}
\* A call of update() recorded in full.
UpdateObserved ==
    \E f \in ObservedFrames :
        UpdateWith([f EXCEPT !.handedness = <<"Left">>], FALSE, TRUE)

\* ---- The manager with start_hold and stop_hold of gestures.py as its hooks
\* A backend whose mechanisms all succeed.
AlwaysOk ==
    [py |-> IF has_pyautogui THEN "ok" ELSE "absent", xdotool |-> "ok", ydotool |-> "ok"]

\* What "True" and "False" stand for among the outcomes of a hook.
Returned(ret) == IF ret THEN "True" ELSE "False"

\* The hook calls from the i-th on, made on the backend in state hs: the
\* backend's state after them, and whether each returned what the call
\* records (start_hold and stop_hold do not raise).
RECURSIVE backend_after(_, _, _, _)
backend_after(hs, calls, i, env) ==
    IF i > Len(calls) THEN [state |-> hs, agree |-> TRUE]
    ELSE LET c == calls[i]
             r == IF c.op = "start_hold" THEN start_hold(hs, c.handedness, c.hand, env)
                  ELSE stop_hold(hs, env)
             rest == backend_after(r.state, calls, i + 1, env)
         IN  [state |-> rest.state, agree |-> rest.agree /\ c.outcome = Returned(r.ret)]

\* The frames of two hands, each with a gesture or none, and the frame
\* without hands.
WiredFrames ==
    {f \in HoldFrames :
        /\ Len(f.gestures) \in {0, NumHands} /\ Len(f.landmarks) = Len(f.gestures)
        /\ f.handedness = <<"Left", "Right">>}

\* One call of update() on a manager constructed with
\* start_hold=gestures.start_hold and stop_hold=gestures.stop_hold, the
\* backend meeting env.
UpdateWiredWith(envs) ==
    \E f \in WiredFrames, env \in envs :
        /\ UpdateManager(f, FALSE, TRUE)
        /\ \E b \in {backend_after(hold_state, hu_obs'.calls, 1, env)} :
              /\ b.agree
              /\ hold_state' = b.state
        /\ UNCHANGED <<has_pyautogui, be_call, lpVars, now, stVars, cpVars, dpVars, geVars,
                       trVars, dcVars, cmVars, rcVars>>

UpdateWired == UpdateWiredWith({AlwaysOk})

\* One call of release_all(); when recorded in full it is recorded in hu_obs.
ReleaseAllWith(observe) ==
    \E xo \in IF hm_stop_kind = "missing" THEN {"True"} ELSE StopOutcomes :
        LET st == HmState(hm_prev, hm_last_start_ts, hm_holding, <<>>)
            r == release_all(st, hm_stop_kind, xo)
        IN  /\ hm_prev' = r.prev
            /\ hm_last_start_ts' = r.ts
            /\ hm_holding' = r.holding
            /\ hm_last_ev' = IF observe THEN hm_last_ev
                             ELSE [h \in HandIndexes |-> LastEv(r.calls, h, hm_last_ev[h])]
            /\ hm_obs' = IF observe THEN hm_obs
                         ELSE [op |-> "release_all", presses |-> {}, pre_ev |-> hm_last_ev,
                               double |-> {}, double_calls |-> {}, raised |-> FALSE]
            /\ hu_obs' = IF observe
                         THEN [HuObs("release_all", NoFrame, now, st, <<>>, FALSE)
                               EXCEPT !.pressed_at = PressTimes(hu_obs),
                                      !.last_hook = LastHooks(hu_obs)]
                         ELSE hu_obs
            /\ UNCHANGED <<lpVars, beVars, now, stVars, cpVars, dpVars, hm_start_kind, hm_stop_kind,
                           hm_pat, geVars, trVars, dcVars, cmVars, rcVars>>

ReleaseAllCall == ReleaseAllWith(FALSE)
\* A call of release_all() recorded in full.
ReleaseAllObserved == ReleaseAllWith(TRUE)

\* The bound on the time that passes in a run of the manager.
MaxHoldElapsed == 1

HoldTick ==
    /\ now < StartTime + MaxHoldElapsed
    /\ now' = now + 1
    /\ UNCHANGED <<beVars, stVars, cpVars, dpVars, hmVars, lpVars, geVars, trVars, dcVars, cmVars, rcVars, huVars>>

(***************************************************************************)
(* The frame loop (handRecognition.py) and the program around it (main.py) *)
(***************************************************************************)

\* Lines 174-211: the loop's own hold detection for hand hi.  start_hold and
\* stop_hold catch their own failures; env is what the backend meets.
loop_hold_hand(st, hi, gestures, env) ==
    LET prev == Get(st.prev, hi, None)
        curr == At(gestures, hi)
        h1 == IF prev # "03_fist" /\ curr = "03_fist"
              THEN start_hold(st.hold, None, hi, env).state ELSE st.hold
        h2 == IF prev = "03_fist" /\ curr # "03_fist"
              THEN stop_hold(h1, env).state ELSE h1
    IN  [prev |-> IF curr # None THEN Put(st.prev, hi, curr) ELSE Pop(st.prev, hi),
         hold |-> h2]

RECURSIVE loop_hold_from(_, _, _, _, _)
loop_hold_from(st, hi, max_hands, gestures, env) ==
    IF hi >= max_hands THEN st
    ELSE loop_hold_from(loop_hold_hand(st, hi, gestures, env), hi + 1, max_hands, gestures, env)

loop_hold_detection(prev, hs, gestures, landmarks, env) ==
    loop_hold_from([prev |-> prev, hold |-> hs], 0, Max(Len(gestures), Len(landmarks)),
                   gestures, env)

\* Lines 174-211 with the hooks left abstract: the start_hold and stop_hold
\* calls the loop's hold detection makes for hand hi, and the gesture it
\* remembers.  can_start and can_stop are lines 176-177.
loop_calls_hand(st, hi, gestures, can_start, can_stop) ==
    LET prev == Get(st.prev, hi, None)
        curr == At(gestures, hi)
        c1 == IF prev # "03_fist" /\ curr = "03_fist" /\ can_start
              THEN <<[op |-> "start_hold", hand |-> hi]>> ELSE <<>>
        c2 == IF prev = "03_fist" /\ curr # "03_fist" /\ can_stop
              THEN <<[op |-> "stop_hold", hand |-> hi]>> ELSE <<>>
    IN  [prev |-> IF curr # None THEN Put(st.prev, hi, curr) ELSE Pop(st.prev, hi),
         calls |-> st.calls \o c1 \o c2]

RECURSIVE loop_calls_from(_, _, _, _, _, _)
loop_calls_from(st, hi, max_hands, gestures, can_start, can_stop) ==
    IF hi >= max_hands THEN st
    ELSE loop_calls_from(loop_calls_hand(st, hi, gestures, can_start, can_stop), hi + 1,
                         max_hands, gestures, can_start, can_stop)

loop_hold_calls(prev, gestures, landmarks, can_start, can_stop) ==
    loop_calls_from([prev |-> prev, calls |-> <<>>], 0, Max(Len(gestures), Len(landmarks)),
                    gestures, can_start, can_stop)


\* Lines 213-241: drawing a hand raises when the drawing call does, or when
\* the hand's handedness entry is None (None + " ").
loop_draw_raises(handedness, landmarks, outcome) ==
    /\ Len(landmarks) > 0
    /\ \/ outcome = "raise_draw"
       \/ \E i \in 0 .. Len(landmarks) - 1 : i < Len(handedness) /\ At(handedness, i) = None

\* One call of handleGesture made by the loop: the hand, and what the call
\* invoked and returned.
LoopCall(i, r) == [i |-> i, invoked |-> r.invoked, ret |-> r.ret]

\* The state of the dispatch loop after the call with result r for hand i.
AfterDispatch(st, i, r) ==
    [ltt |-> r.ltt, gltt |-> r.gltt, hold |-> r.hold,
     shouldExit |-> st.shouldExit \/ r.ret = "True",
     calls |-> Append(st.calls, LoopCall(i, r))]

\* The dispatch loop left at the first call that returns a truthy value.
RECURSIVE loop_dispatch_stops_at_exit(_, _, _, _, _, _)
loop_dispatch_stops_at_exit(st, i, gestures, handedness, t, env) ==
    IF i >= Len(gestures) \/ st.shouldExit THEN st
    ELSE IF At(gestures, i) = None
    THEN loop_dispatch_stops_at_exit(st, i + 1, gestures, handedness, t, env)
    ELSE loop_dispatch_stops_at_exit(
             AfterDispatch(st, i, handleGesture(st.ltt, st.gltt, st.hold, At(gestures, i),
                                                At(handedness, i), i, t, env)),
             i + 1, gestures, handedness, t, env)

\* Lines 344-348: the dispatch of every gesture of the frame, in order.
RECURSIVE loop_dispatch_from(_, _, _, _, _, _)
loop_dispatch_from(st, i, gestures, handedness, t, env) ==
    IF i >= Len(gestures) THEN st
    ELSE IF At(gestures, i) = None
    THEN loop_dispatch_from(st, i + 1, gestures, handedness, t, env)
    ELSE loop_dispatch_from(
             AfterDispatch(st, i, handleGesture(st.ltt, st.gltt, st.hold, At(gestures, i),
                                                At(handedness, i), i, t, env)),
             i + 1, gestures, handedness, t, env)

\* What the backend meets during a tick: everything works, or nothing does.
LoopEnvs ==
    {[py |-> "ok", xdotool |-> "ok", ydotool |-> "ok"],
     [py |-> "raise", xdotool |-> "fail", ydotool |-> "missing"]}

\* What a tick reads from latest_result: up to NumHands hands; the lists of
\* equal length, or the handedness list empty; a handedness entry may be None.
LoopGestures == {None, "03_fist", "Victory"}
LoopFrames ==
    UNION {[gestures : [1 .. n -> LoopGestures],
            handedness : {<<>>} \cup {h \in [1 .. n -> {"Left", None}] :
                                         \A i \in 1 .. n : i > 1 => h[i] = "Left"},
            landmarks : {[i \in 1 .. n |-> "lm"]}] : n \in 0 .. NumHands}

\* What happens around the frame's data in a tick: nothing, the quit key, no
\* frame from the camera, an exception before the hold detection
\* (flip/cvtColor/recognize_async), in drawing, or in showFrame/waitKey.
LoopOutcomes == {"none", "quit_key", "no_frame", "raise_capture", "raise_draw", "raise_show"}

\* What is recorded of a tick: what happened around the frame, the frame's
\* gestures and handedness, the calls of handleGesture in order, and whether
\* one of them returned a truthy value.
LpObs(o, gestures, handedness, calls, signal) ==
    [o |-> o, gestures |-> gestures, handedness |-> handedness, calls |-> calls,
     signal |-> signal]

LpInit ==
    /\ lp_obs = LpObs("none", <<>>, <<>>, <<>>, FALSE)
    /\ lp_pc = "loop"
    /\ lp_prev = EmptyDict
    /\ lp_exit = "none"
    /\ lp_released = FALSE

\* The frames fed to the loop's hold detection and to HoldManager.update
\* alike: one hand or none.
PairFrames == {f \in OneHandFrames : f.handedness = <<>>}

\* One frame snapshot given to the loop's hold detection (lines 171-211) and
\* to HoldManager.update, the hooks of both being present or missing alike.
HoldPairFrame ==
    \E f \in PairFrames :
        /\ UpdateManager([f EXCEPT !.handedness = <<"Left">>], FALSE, TRUE)
        /\ \E r \in {loop_hold_calls(lp_prev, f.gestures, f.landmarks,
                                      hm_start_kind # "missing", hm_stop_kind # "missing")} :
              /\ lp_prev' = r.prev
              /\ lp_obs' = LpObs("hold_detection", f.gestures, <<"Left">>, r.calls, FALSE)
        /\ UNCHANGED <<lp_pc, lp_exit, lp_released, beVars, now, stVars, cpVars, dpVars,
                       geVars, trVars, dcVars, cmVars, rcVars>>

\* `while camera.isOpened()` finds the camera closed.
CameraNotOpen ==
    /\ lp_pc = "loop"
    /\ lp_pc' = "after_loop"
    /\ lp_exit' = "camera_not_open"
    /\ UNCHANGED <<beVars, now, stVars, cpVars, dpVars, hmVars, lp_prev, lp_released, lp_obs, geVars, trVars, dcVars,
                   cmVars, rcVars, huVars>>

\* One iteration of the loop with the camera open (lines 153-352).
FrameTick ==
    /\ lp_pc = "loop"
    /\ \E f \in LoopFrames, o \in LoopOutcomes, env \in LoopEnvs :
          \E hd \in {loop_hold_detection(lp_prev, hold_state, f.gestures, f.landmarks, env)} :
          \E dp \in {loop_dispatch_from([ltt |-> ah_last_trigger_time,
                                         gltt |-> g_last_trigger_time,
                                         hold |-> hd.hold, shouldExit |-> FALSE,
                                         calls |-> <<>>],
                                        0, f.gestures, f.handedness, now, env)} :
            CASE o = "no_frame" ->
                    /\ lp_pc' = "after_loop" /\ lp_exit' = "no_frame"
                    /\ lp_obs' = LpObs(o, <<>>, <<>>, <<>>, FALSE)
                    /\ UNCHANGED <<hold_state, lp_prev, ah_last_trigger_time,
                                   g_last_trigger_time, geVars, trVars, dcVars, cmVars, rcVars,
                                   huVars>>
              [] o = "raise_capture" ->
                    /\ lp_pc' = "raised" /\ lp_exit' = "exception"
                    /\ lp_obs' = LpObs(o, <<>>, <<>>, <<>>, FALSE)
                    /\ UNCHANGED <<hold_state, lp_prev, ah_last_trigger_time,
                                   g_last_trigger_time, geVars, trVars, dcVars, cmVars, rcVars,
                                   huVars>>
              [] o \notin {"no_frame", "raise_capture"}
                 /\ loop_draw_raises(f.handedness, f.landmarks, o) ->
                    /\ lp_pc' = "raised" /\ lp_exit' = "exception"
                    /\ lp_obs' = LpObs(o, f.gestures, f.handedness, <<>>, FALSE)
                    /\ hold_state' = hd.hold /\ lp_prev' = hd.prev
                    /\ UNCHANGED <<ah_last_trigger_time, g_last_trigger_time>>
              [] OTHER ->
                    /\ hold_state' = dp.hold /\ lp_prev' = hd.prev
                    /\ ah_last_trigger_time' = dp.ltt
                    /\ g_last_trigger_time' = dp.gltt
                    /\ lp_obs' = LpObs(o, f.gestures, f.handedness, dp.calls, dp.shouldExit)
                    /\ lp_pc' = IF o = "raise_show" THEN "raised"
                                ELSE IF o = "quit_key" \/ dp.shouldExit THEN "after_loop"
                                ELSE "loop"
                    /\ lp_exit' = IF o = "raise_show" THEN "exception"
                                  ELSE IF o = "quit_key" THEN "quit_key"
                                  ELSE IF dp.shouldExit THEN "exit_signal"
                                  ELSE "none"
    /\ UNCHANGED <<has_pyautogui, be_call, now, stVars, cpVars, dp_repertoire, dp_invoked_at,
                   dp_obs, hmVars, lp_released, geVars, trVars, dcVars, cmVars, rcVars, huVars>>

\* Lines 354-361: after the loop, stop_hold() and camera.release(); then
\* handRecognition() returns.
FinalRelease ==
    /\ lp_pc = "after_loop"
    /\ \E env \in LoopEnvs : hold_state' = stop_hold(hold_state, env).state
    /\ lp_released' = TRUE
    /\ lp_pc' = "returned"
    /\ UNCHANGED <<has_pyautogui, be_call, now, stVars, cpVars, dpVars, hmVars, lp_prev,
                   lp_exit, lp_obs, geVars, trVars, dcVars, cmVars, rcVars, huVars>>

\* main(): handRecognition() returned; the program ends.
MainReturn ==
    /\ lp_pc = "returned"
    /\ lp_pc' = "torn_down"
    /\ UNCHANGED <<beVars, now, stVars, cpVars, dpVars, hmVars, lp_prev, lp_exit, lp_released, lp_obs, geVars, trVars, dcVars,
                   cmVars, rcVars, huVars>>

\* main(), lines 65-69: handRecognition() raised; print and sys.exit(1).
MainExit ==
    /\ lp_pc = "raised"
    /\ lp_pc' = "torn_down"
    /\ UNCHANGED <<beVars, now, stVars, cpVars, dpVars, hmVars, lp_prev, lp_exit, lp_released, lp_obs, geVars, trVars, dcVars,
                   cmVars, rcVars, huVars>>

\* The bound on the time that passes while the loop runs.
MaxLoopElapsed == 2

LoopClock ==
    /\ lp_pc = "loop"
    /\ now < StartTime + MaxLoopElapsed
    /\ now' = now + 1
    /\ UNCHANGED <<beVars, stVars, cpVars, dpVars, hmVars, lpVars, geVars, trVars, dcVars, cmVars, rcVars, huVars>>

(***************************************************************************)
(* Monitor geometry (mouse_control.py)                                     *)
(*                                                                         *)
(* A monitor is the tuple (name, width, height, offset_x, offset_y,        *)
(* is_primary) parsed from a ` connected ` line of xrandr, here a record.  *)
(* A geometry is the tuple <<w, h, ox, oy>>; Python's None where a         *)
(* geometry is expected is the empty tuple NoBox (both are falsy).         *)
(***************************************************************************)
\* mouse_control.py lines 32 and 35.
PREFER_PRIMARY_MONITOR == TRUE
TARGET_MONITOR_NAME == "DP-1"

NoBox == <<>>

MonitorNames == {"HDMI-1", "DP-1", "eDP-1"}
MonitorSizes == {<<1920, 1080>>, <<2560, 1440>>}
MonitorOffsets == {<<0, 0>>, <<1920, 0>>}

Monitors ==
    { [name |-> n, w |-> s[1], h |-> s[2], ox |-> o[1], oy |-> o[2], primary |-> p] :
        n \in MonitorNames, s \in MonitorSizes, o \in MonitorOffsets, p \in BOOLEAN }

\* The longest list of connected monitors xrandr reports.
MaxMonitors == 2

MonitorLists == UNION { [1 .. k -> Monitors] : k \in 0 .. MaxMonitors }

\* (mon[1], mon[2], mon[3], mon[4])
GeometryOf(mon) == <<mon.w, mon.h, mon.ox, mon.oy>>

\* `for mon in monitors: if mon[0] == TARGET_MONITOR_NAME: return ...` from
\* element i on: the index of the element returned, or 0 when the loop ends.
RECURSIVE for_target_name(_, _)
for_target_name(monitors, i) ==
    IF i > Len(monitors) THEN 0
    ELSE IF monitors[i].name = TARGET_MONITOR_NAME THEN i
    ELSE for_target_name(monitors, i + 1)

\* `for mon in monitors: if mon[5]: return ...`
RECURSIVE for_primary(_, _)
for_primary(monitors, i) ==
    IF i > Len(monitors) THEN 0
    ELSE IF monitors[i].primary THEN i
    ELSE for_primary(monitors, i + 1)

\* `for mon in monitors: if mon[3] == 0 and mon[4] == 0: return ...`
RECURSIVE for_origin(_, _)
for_origin(monitors, i) ==
    IF i > Len(monitors) THEN 0
    ELSE IF monitors[i].ox = 0 /\ monitors[i].oy = 0 THEN i
    ELSE for_origin(monitors, i + 1)

\* The key of the sort: m[1] * m[2].
Area(mon) == mon.w * mon.h

\* list.sort(key=..., reverse=True) is stable: an element goes after every
\* element whose key is at least its own.
RECURSIVE insert_by_area(_, _)
insert_by_area(sorted, mon) ==
    IF sorted = <<>> THEN <<mon>>
    ELSE IF Area(Head(sorted)) >= Area(mon)
         THEN <<Head(sorted)>> \o insert_by_area(Tail(sorted), mon)
         ELSE <<mon>> \o sorted

RECURSIVE sort_by_area(_, _)
sort_by_area(monitors, acc) ==
    IF monitors = <<>> THEN acc
    ELSE sort_by_area(Tail(monitors), insert_by_area(acc, Head(monitors)))

\* The selection with the primary flag looked at before the name.
select_monitor_primary_first(monitors) ==
    LET p == for_primary(monitors, 1)
        t == for_target_name(monitors, 1)
        o == for_origin(monitors, 1)
    IN  IF PREFER_PRIMARY_MONITOR /\ p # 0 THEN GeometryOf(monitors[p])
        ELSE IF TARGET_MONITOR_NAME # None /\ t # 0 THEN GeometryOf(monitors[t])
        ELSE IF o # 0 THEN GeometryOf(monitors[o])
        ELSE GeometryOf(sort_by_area(monitors, <<>>)[1])

\* _get_monitor_geometry, lines 107-125: the selection from a non-empty list.
select_monitor(monitors) ==
    LET t == for_target_name(monitors, 1)
        p == for_primary(monitors, 1)
        o == for_origin(monitors, 1)
    IN  IF TARGET_MONITOR_NAME # None /\ t # 0 THEN GeometryOf(monitors[t])
        ELSE IF PREFER_PRIMARY_MONITOR /\ p # 0 THEN GeometryOf(monitors[p])
        ELSE IF o # 0 THEN GeometryOf(monitors[o])
        ELSE GeometryOf(sort_by_area(monitors, <<>>)[1])

\* What `xrandr --current` gives: the call raises (ok = FALSE), or the
\* monitors parsed from its output.
XrandrOutcomes ==
    {[ok |-> FALSE, monitors |-> <<>>]} \cup {[ok |-> TRUE, monitors |-> l] : l \in MonitorLists}

\* What xdpyinfo gives: nothing usable (the call raises, or no `dimensions:`
\* line parses), or the size of the whole screen.
XdpyinfoOutcomes == {NoBox, <<3840, 1080>>}

GeometryEnvs == [xrandr : XrandrOutcomes, xdpyinfo : XdpyinfoOutcomes]

\* _get_monitor_geometry(): xrandr, then xdpyinfo, then None.
get_monitor_geometry(env) ==
    IF env.xrandr.ok /\ env.xrandr.monitors # <<>> THEN select_monitor(env.xrandr.monitors)
    ELSE IF env.xdpyinfo # NoBox THEN <<env.xdpyinfo[1], env.xdpyinfo[2], 0, 0>>
    ELSE NoBox

\* Before the call: what the display queries of this run will answer.
GeObsBefore(env) ==
    [op |-> "none", xrandr |-> env.xrandr, xdpyinfo |-> env.xdpyinfo, ret |-> NoBox]

GeInit == ge_obs \in {GeObsBefore(env) : env \in GeometryEnvs}

\* A specification that does not call the resolver.
GeIdle == ge_obs = GeObsBefore([xrandr |-> [ok |-> FALSE, monitors |-> <<>>], xdpyinfo |-> NoBox])

GetMonitorGeometryCall ==
    /\ ge_obs.op = "none"
    /\ ge_obs' = [ge_obs EXCEPT !.op = "_get_monitor_geometry",
                                !.ret = get_monitor_geometry(
                                    [xrandr |-> ge_obs.xrandr, xdpyinfo |-> ge_obs.xdpyinfo])]
    /\ UNCHANGED <<beVars, now, stVars, cpVars, dpVars, hmVars, lpVars, trVars, dcVars, cmVars, rcVars, huVars>>

(***************************************************************************)
(* Pointer tracking (tracker.py, mouse_control.move_mouse_normalized)      *)
(*                                                                         *)
(* Normalized coordinates, the smoothing factor and the sensitivity are    *)
(* floats in the code.  Here they are exact fractions: a coordinate is a   *)
(* number of 1/Unit, alpha and the sensitivity are fifths (the defaults    *)
(* are 0.6 and 1.2).  Unit is chosen so that every value the calls of a    *)
(* run produce is a whole number of 1/Unit: the arithmetic is that of the  *)
(* code without the rounding of its floats.                                *)
(***************************************************************************)
Fifths == 5

\* The calls of track_hand in one run.
MaxTicks == 3

RECURSIVE Power(_, _)
Power(b, n) == IF n = 0 THEN 1 ELSE b * Power(b, n - 1)

\* 1.0 as a coordinate; 0.5 is Half.
Unit == 2 * Power(Fifths, MaxTicks + 1)
Half == Unit \div 2

Min(a, b) == IF a <= b THEN a ELSE b

\* max(0.0, min(1.0, v))
Clamp01(v) == Max(0, Min(Unit, v))

\* int(n * max(0, size - 1)) for a coordinate n in [0, 1].
ScaleToPixels(n, size) == (n * Max(0, size - 1)) \div Unit

\* ---- the Hyprland branch of move_mouse_normalized
HyprMonitors ==
    { [name |-> "DP-1", x |-> 1920, y |-> 0, width |-> 2560, height |-> 1440, focused |-> FALSE],
      [name |-> "HDMI-A-1", x |-> 0, y |-> 0, width |-> 1920, height |-> 1080, focused |-> TRUE],
      [name |-> "eDP-1", x |-> 0, y |-> 1080, width |-> 1280, height |-> 720, focused |-> FALSE] }

HyprLists == {<<>>} \cup {<<m>> : m \in HyprMonitors}
                    \cup {<<m, n>> : m, n \in {h \in HyprMonitors : h.name # "DP-1"}}

\* shutil.which("hyprctl") finds nothing (present = FALSE); `hyprctl -j
\* monitors` raises or does not parse (query = FALSE); else the monitors it
\* lists and whether `hyprctl dispatch movecursor` succeeds.
HyprOutcomes ==
    {[present |-> FALSE, query |-> FALSE, mons |-> <<>>, dispatch |-> FALSE],
     [present |-> TRUE, query |-> FALSE, mons |-> <<>>, dispatch |-> FALSE]} \cup
    {[present |-> TRUE, query |-> TRUE, mons |-> l, dispatch |-> dp] :
        l \in HyprLists, dp \in BOOLEAN}

\* `for m in mons: if TARGET_MONITOR_NAME and m.get("name") == TARGET_MONITOR_NAME`
RECURSIVE for_hypr_name(_, _)
for_hypr_name(mons, i) ==
    IF i > Len(mons) THEN 0
    ELSE IF TARGET_MONITOR_NAME # None /\ mons[i].name = TARGET_MONITOR_NAME THEN i
    ELSE for_hypr_name(mons, i + 1)

\* `for m in mons: if m.get("focused")`
RECURSIVE for_hypr_focused(_, _)
for_hypr_focused(mons, i) ==
    IF i > Len(mons) THEN 0
    ELSE IF mons[i].focused THEN i
    ELSE for_hypr_focused(mons, i + 1)

\* The index of the monitor chosen from hyprctl's list, 0 for none.
hypr_chosen(mons) ==
    LET t == for_hypr_name(mons, 1)
        f == for_hypr_focused(mons, 1)
    IN  IF t # 0 THEN t
        ELSE IF f # 0 THEN f
        ELSE IF Len(mons) > 0 THEN 1
        ELSE 0

\* ---- move_mouse_normalized
\* pyautogui.size(): unavailable (the library is missing or the call
\* raises), or the size of the whole screen.
ScreenSizes == {NoBox, <<3840, 1080>>}

\* The backends of move_mouse_abs during a pointer move: the library and
\* xdotool, ydotool not installed.
AbsEnvs == {[py |-> p, xdotool |-> x, y |-> YdotoolMissing] : p \in LibOutcomes, x \in CliOutcomes}

XrandrFails == [ok |-> FALSE, monitors |-> <<>>]
HyprAbsent == [present |-> FALSE, query |-> FALSE, mons |-> <<>>, dispatch |-> FALSE]

\* The display environments of the pointer runs: Hyprland absent or listing
\* one monitor, xrandr failing or listing the primary monitor HDMI-1 alone or
\* before DP-1, xdotool not installed.
PointerRunEnvs ==
    [hypr : {HyprAbsent} \cup
            {h \in HyprOutcomes : h.query /\ Len(h.mons) = 1 /\ h.mons[1].name = "eDP-1"},
     xrandr : {XrandrFails} \cup
              {[ok |-> TRUE, monitors |-> l] :
                  l \in {<<[name |-> "HDMI-1", w |-> 1920, h |-> 1080, ox |-> 0, oy |-> 0,
                            primary |-> TRUE]>> \o t :
                            t \in {<<>>, <<[name |-> "DP-1", w |-> 2560, h |-> 1440,
                                            ox |-> 1920, oy |-> 0, primary |-> FALSE]>>}}},
     xdpyinfo : XdpyinfoOutcomes,
     pysize : ScreenSizes,
     abs : {e \in AbsEnvs : e.xdotool = "missing"}]

\* The environment of a tracker whose moves only the library can make: no
\* display query answers, pyautogui knows the size of the screen.
TrackerEnvs ==
    [hypr : {HyprAbsent}, xrandr : {XrandrFails}, xdpyinfo : {NoBox},
     pysize : ScreenSizes \ {NoBox}, abs : {e \in AbsEnvs : e.xdotool = "missing"}]

NoPixel == <<>>

\* What a call of move_mouse_normalized did: its result, the position the
\* cursor was sent to (NoPixel if none was), and the geometry the position
\* was computed from with where it came from.
NormResult(ret, pixel, geometry, from) ==
    [ret |-> ret, pixel |-> pixel, geometry |-> geometry, from |-> from]

\* The size reported by pyautogui never used (lines 369-372 left out).
resolve_geometry_without_screen(fallback_screen_size, env) ==
    LET geo == get_monitor_geometry([xrandr |-> env.xrandr, xdpyinfo |-> env.xdpyinfo])
        box == IF Len(fallback_screen_size) = 4 THEN fallback_screen_size
               ELSE IF Len(fallback_screen_size) = 2
               THEN <<fallback_screen_size[1], fallback_screen_size[2], 0, 0>>
               ELSE NoBox
    IN  IF geo # NoBox THEN [geometry |-> geo, from |-> "detected"]
        ELSE IF box # NoBox THEN [geometry |-> box, from |-> "box"]
        ELSE [geometry |-> NoBox, from |-> "none"]

\* The geometry held in monitor_w, monitor_h, offset_x, offset_y when the pixel
\* is computed (lines 300-379), NoBox when monitor_w or monitor_h is None:
\* the box is assigned first (lines 300-304), then overwritten by a detected
\* geometry (lines 364-366), and the size reported by pyautogui is used when
\* both left monitor_w unset (lines 369-372).
resolve_geometry(fallback_screen_size, env) ==
    LET total == IF has_pyautogui THEN env.pysize ELSE NoBox
        geo == get_monitor_geometry([xrandr |-> env.xrandr, xdpyinfo |-> env.xdpyinfo])
        box == IF Len(fallback_screen_size) = 4 THEN fallback_screen_size
               ELSE IF Len(fallback_screen_size) = 2
               THEN <<fallback_screen_size[1], fallback_screen_size[2], 0, 0>>
               ELSE NoBox
    IN  IF geo # NoBox THEN [geometry |-> geo, from |-> "detected"]
        ELSE IF box # NoBox THEN [geometry |-> box, from |-> "box"]
        ELSE IF total # NoBox
        THEN [geometry |-> <<total[1], total[2], 0, 0>>, from |-> "screen"]
        ELSE [geometry |-> NoBox, from |-> "none"]

\* move_mouse_normalized(nx, ny, fallback_screen_size)
move_mouse_normalized(nx, ny, fallback_screen_size, env) ==
    LET cx == Clamp01(nx)
        cy == Clamp01(ny)
        c == IF env.hypr.present /\ env.hypr.query THEN hypr_chosen(env.hypr.mons) ELSE 0
        g == resolve_geometry(fallback_screen_size, env).geometry
        from == resolve_geometry(fallback_screen_size, env).from
    IN  IF c # 0 /\ env.hypr.dispatch
        THEN LET m == env.hypr.mons[c]
             IN  NormResult(TRUE, <<m.x + ScaleToPixels(cx, m.width),
                                    m.y + ScaleToPixels(cy, m.height)>>,
                            <<m.width, m.height, m.x, m.y>>, "hyprctl")
        ELSE IF g = NoBox THEN NormResult(FALSE, NoPixel, NoBox, "none")
        ELSE LET abs_x == Max(0, g[3] + ScaleToPixels(cx, g[1]))
                 abs_y == Max(0, g[4] + ScaleToPixels(cy, g[2]))
             IN  NormResult(move_mouse_abs(abs_x, abs_y, env.abs).ret,
                            <<abs_x, abs_y>>, g, from)

\* ---- Tracker
TRACK_GESTURE == "06_index"

\* smooth_alpha and sensitivity in fifths, invert_y, and whether a move
\* function and a detect_monitors function were given to the constructor.
TrackerConfigs ==
    [alpha : {1, 3, 5}, sensitivity : {5, 6}, invert_y : BOOLEAN,
     move : BOOLEAN, detect : BOOLEAN]

\* hand_landmarks: the position of landmark 8, or NoLandmarks when the
\* sequence is empty or too short.
NoLandmarks == <<>>
Fingertips == {<<0, 0>>, <<Half, Half>>, <<Unit, Unit>>, <<0, Unit>>}
Landmarks == {NoLandmarks} \cup Fingertips

TrackGestures == {None, TRACK_GESTURE, "03_fist"}

\* monitor_box: None, (w, h) or (w, h, ox, oy).
Boxes == {NoBox, <<1920, 1080>>, <<1920, 1080, 0, 0>>, <<1280, 720, 0, 1080>>}

\* detect_monitors(): the monitors xrandr lists, [] when it fails.
detect_monitors(env) == IF env.xrandr.ok THEN env.xrandr.monitors ELSE <<>>

\* `for m in mons: if m and len(m) >= 6 and m[0] == "DP-1"`
RECURSIVE for_dp1(_, _)
for_dp1(mons, i) ==
    IF i > Len(mons) THEN 0
    ELSE IF mons[i].name = "DP-1" THEN i
    ELSE for_dp1(mons, i + 1)

\* The fallback the tracker forwards (lines 168-201).
tracker_fallback(cfg, monitor_box, env) ==
    LET mons == detect_monitors(env)
        t == for_dp1(mons, 1)
        p == for_primary(mons, 1)
        chosen == IF t # 0 THEN t ELSE IF p # 0 THEN p ELSE 1
    IN  IF monitor_box # NoBox THEN monitor_box
        ELSE IF cfg.detect /\ mons # <<>> THEN GeometryOf(mons[chosen])
        ELSE NoBox

\* The clamp of lines 135-137 left out.
smoothed_unclamped(cfg, last, hand_index, lm) ==
    LET y0 == IF cfg.invert_y THEN Unit - lm[2] ELSE lm[2]
        nx == Half + ((lm[1] - Half) * cfg.sensitivity) \div Fifths
        ny == Half + ((y0 - Half) * cfg.sensitivity) \div Fifths
        prev == Get(last, hand_index, <<nx, ny>>)
    IN  <<(prev[1] * (Fifths - cfg.alpha) + nx * cfg.alpha) \div Fifths,
          (prev[2] * (Fifths - cfg.alpha) + ny * cfg.alpha) \div Fifths>>

\* The smoothed position of lines 119-144 for the fingertip lm.
smoothed(cfg, last, hand_index, lm) ==
    LET y0 == IF cfg.invert_y THEN Unit - lm[2] ELSE lm[2]
        nx == Clamp01(Half + ((lm[1] - Half) * cfg.sensitivity) \div Fifths)
        ny == Clamp01(Half + ((y0 - Half) * cfg.sensitivity) \div Fifths)
        prev == Get(last, hand_index, <<nx, ny>>)
    IN  <<(prev[1] * (Fifths - cfg.alpha) + nx * cfg.alpha) \div Fifths,
          (prev[2] * (Fifths - cfg.alpha) + ny * cfg.alpha) \div Fifths>>

TrackResult(ret, last, called, at, fallback, norm) ==
    [ret |-> ret, last |-> last, called |-> called, at |-> at, fallback |-> fallback,
     pixel |-> norm.pixel, geometry |-> norm.geometry, from |-> norm.from]

NotCalled(last) ==
    TrackResult(FALSE, last, FALSE, NoPixel, NoBox, NormResult(FALSE, NoPixel, NoBox, "none"))

\* The gate of lines 111-114 left out.
track_hand_ungated(cfg, last, hand_index, hand_landmarks, gesture_name, monitor_box, require_gesture, env) ==
    IF ~cfg.move THEN NotCalled(last)
    ELSE IF hand_landmarks = NoLandmarks THEN NotCalled(last)
    ELSE LET s == smoothed(cfg, last, hand_index, hand_landmarks)
             fallback == tracker_fallback(cfg, monitor_box, env)
             r == move_mouse_normalized(s[1], s[2], fallback, env)
         IN  TrackResult(r.ret, Put(last, hand_index, s), TRUE, s, fallback, r)

\* The smoothing of lines 139-144 left out: the position moved to is the
\* clamped fingertip.
track_hand_unsmoothed(cfg, last, hand_index, hand_landmarks, gesture_name, monitor_box, require_gesture, env) ==
    IF ~cfg.move THEN NotCalled(last)
    ELSE IF require_gesture /\ gesture_name # None /\ gesture_name # TRACK_GESTURE
    THEN NotCalled(last)
    ELSE IF hand_landmarks = NoLandmarks THEN NotCalled(last)
    ELSE LET s == smoothed(cfg, EmptyDict, hand_index, hand_landmarks)
             fallback == tracker_fallback(cfg, monitor_box, env)
             r == move_mouse_normalized(s[1], s[2], fallback, env)
         IN  TrackResult(r.ret, Put(last, hand_index, s), TRUE, s, fallback, r)

\* Tracker.track_hand(hand_index, hand_landmarks, gesture_name, monitor_box,
\* require_gesture): the result, _last_smoothed afterwards, and the call of
\* the move function it made.
track_hand(cfg, last, hand_index, hand_landmarks, gesture_name, monitor_box, require_gesture, env) ==
    IF ~cfg.move THEN NotCalled(last)
    ELSE IF require_gesture /\ gesture_name # None /\ gesture_name # TRACK_GESTURE
    THEN NotCalled(last)
    ELSE IF hand_landmarks = NoLandmarks THEN NotCalled(last)
    ELSE LET s == smoothed(cfg, last, hand_index, hand_landmarks)
             fallback == tracker_fallback(cfg, monitor_box, env)
             r == move_mouse_normalized(s[1], s[2], fallback, env)
         IN  TrackResult(r.ret, Put(last, hand_index, s), TRUE, s, fallback, r)

TrObsInit ==
    [op |-> "none", hand_index |-> NoIndex, lm |-> NoLandmarks, gesture |-> None,
     box |-> NoBox, require |-> FALSE, pre |-> EmptyDict, ret |-> FALSE, called |-> FALSE,
     at |-> NoPixel, fallback |-> NoBox, pixel |-> NoPixel, geometry |-> NoBox,
     from |-> "none"]

\* Tracker.__init__
TrInit ==
    /\ tr_last_smoothed = EmptyDict
    /\ tr_run = EmptyDict
    /\ tr_ticks = 0
    /\ tr_obs = TrObsInit

\* The tracker of a specification that tracks no hand.
TrIdle ==
    /\ TrInit
    /\ tr_cfg = [alpha |-> 3, sensitivity |-> 6, invert_y |-> FALSE, move |-> TRUE,
                 detect |-> TRUE]
    /\ tr_env = [hypr |-> HyprAbsent, xrandr |-> XrandrFails, xdpyinfo |-> NoBox,
                 pysize |-> NoBox,
                 abs |-> [py |-> "absent", xdotool |-> "missing", y |-> YdotoolMissing]]

\* ---- One iteration of the frame loop with everything it calls, in order
(* handRecognition.py lines 153-352.  The trace of a tick lists the calls  *)
(* it made to the hold controls, the drawing functions, the cursor mover,  *)
(* handleGesture and showFrame.                                            *)

Event(kind, hand, what) == [kind |-> kind, hand |-> hand, what |-> what]

\* Lines 125-147: the monitor box chosen before the loop; None when
\* detect_monitors was not imported or lists nothing.
loop_monitor_box(cfg, env) ==
    IF cfg.move THEN tracker_fallback([cfg EXCEPT !.detect = TRUE], NoBox, env) ELSE NoBox

\* The calls of hold detection (lines 174-211) as events.
HoldEvents(calls) == [k \in 1 .. Len(calls) |-> Event("hold", calls[k].hand, <<calls[k].op>>)]

\* The calls of handleGesture (lines 344-348) as events, each with the
\* actions it invoked.
DispatchEvents(calls) ==
    [k \in 1 .. Len(calls) |-> Event("dispatch", calls[k].i, calls[k].invoked)]

\* Whether drawing hand i raises: draw_landmarks does, or the hand's
\* handedness entry is None (None + " ", line 224).
draw_raises(i, handedness, outcome) ==
    outcome = "raise_draw" \/ (i < Len(handedness) /\ At(handedness, i) = None)

\* The body of the loop of lines 213-342 for hand i with the cursor moved
\* before the hand is drawn.
loop_render_hand_tracks_first(st, i, f, outcome, cfg, env) ==
    LET lm == At(f.landmarks, i)
        g == At(f.gestures, i)
        label == i < Len(f.handedness) \/ g # None
        tracks == g = TRACK_GESTURE /\ cfg.move /\ lm # NoLandmarks
        s == smoothed(cfg, st.last, i, lm)
        r == move_mouse_normalized(s[1], s[2], loop_monitor_box(cfg, env), env)
        drawn == <<Event("draw", i, <<"draw_landmarks">>)>>
                 \o (IF label /\ ~draw_raises(i, f.handedness, outcome)
                     THEN <<Event("draw", i, <<"putText">>)>> ELSE <<>>)
    IN  [last |-> IF tracks THEN Put(st.last, i, s) ELSE st.last,
         trace |-> st.trace
                   \o (IF tracks THEN <<Event("move", i, <<r.ret>>)>> ELSE <<>>) \o drawn,
         raised |-> draw_raises(i, f.handedness, outcome)]

\* The body of the loop of lines 213-342 for hand i: draw_landmarks, the
\* label, then the cursor move when the hand shows the tracking gesture, the
\* mover was imported and the hand has a landmark 8.  Exceptions of the
\* drawing part leave the loop; those of the tracking part are caught.
loop_render_hand(st, i, f, outcome, cfg, env) ==
    LET lm == At(f.landmarks, i)
        g == At(f.gestures, i)
        label == i < Len(f.handedness) \/ g # None
        raises == draw_raises(i, f.handedness, outcome)
        tracks == ~raises /\ g = TRACK_GESTURE /\ cfg.move /\ lm # NoLandmarks
        s == smoothed(cfg, st.last, i, lm)
        r == move_mouse_normalized(s[1], s[2], loop_monitor_box(cfg, env), env)
        drawn == <<Event("draw", i, <<"draw_landmarks">>)>>
                 \o (IF label /\ ~raises THEN <<Event("draw", i, <<"putText">>)>> ELSE <<>>)
    IN  [last |-> IF tracks THEN Put(st.last, i, s) ELSE st.last,
         trace |-> st.trace
                   \o drawn \o (IF tracks THEN <<Event("move", i, <<r.ret>>)>> ELSE <<>>),
         raised |-> raises]

\* `for i, hand_landmarks in enumerate(landmarks)`, left at an exception.
RECURSIVE loop_render_from(_, _, _, _, _, _)
loop_render_from(st, i, f, outcome, cfg, env) ==
    IF i >= Len(f.landmarks) \/ st.raised THEN st
    ELSE loop_render_from(loop_render_hand(st, i, f, outcome, cfg, env), i + 1, f, outcome,
                          cfg, env)

\* What a tick reads from latest_result for two hands at most: per hand
\* no gesture, the hold gesture or the tracking gesture, handedness for
\* every hand or for none, and landmarks with a fingertip, those of the
\* last hand possibly too short to have one.
TickGestures == {None, "03_fist", TRACK_GESTURE}
TickFrames ==
    UNION {[gestures : [1 .. n -> TickGestures],
            handedness : {<<>>, [i \in 1 .. n |-> "Left"]},
            landmarks : {[i \in 1 .. n |-> <<Half, Half>>],
                         [i \in 1 .. n |-> IF i = n THEN NoLandmarks ELSE <<Half, Half>>]}] :
           n \in 0 .. NumHands}

TickOutcomes == {"none", "quit_key", "raise_draw"}

\* What is recorded of a traced tick.
TickObs(o, f, calls, signal, trace) ==
    [o |-> o, gestures |-> f.gestures, handedness |-> f.handedness, calls |-> calls,
     signal |-> signal, landmarks |-> f.landmarks, trace |-> trace]

\* One iteration of the loop with a frame from the camera (lines 159-352).
FrameTickTraced ==
    /\ lp_pc = "loop"
    /\ \E f \in TickFrames, o \in TickOutcomes, env \in LoopEnvs :
          \E hd \in {loop_hold_detection(lp_prev, hold_state, f.gestures, f.landmarks, env)},
             hc \in {loop_hold_calls(lp_prev, f.gestures, f.landmarks, TRUE, TRUE)},
             rd \in {loop_render_from([last |-> tr_last_smoothed, trace |-> <<>>,
                                       raised |-> FALSE],
                                      0, f, o, tr_cfg, tr_env)} :
          \E dp \in {loop_dispatch_from([ltt |-> ah_last_trigger_time,
                                         gltt |-> g_last_trigger_time,
                                         hold |-> hd.hold, shouldExit |-> FALSE,
                                         calls |-> <<>>],
                                        0, f.gestures, f.handedness, now, env)} :
            /\ lp_prev' = hd.prev
            /\ tr_last_smoothed' = rd.last
            /\ IF rd.raised
               THEN /\ lp_pc' = "raised" /\ lp_exit' = "exception"
                    /\ hold_state' = hd.hold
                    /\ lp_obs' = TickObs(o, f, <<>>, FALSE, HoldEvents(hc.calls) \o rd.trace)
                    /\ UNCHANGED <<ah_last_trigger_time, g_last_trigger_time>>
               ELSE /\ hold_state' = dp.hold
                    /\ ah_last_trigger_time' = dp.ltt
                    /\ g_last_trigger_time' = dp.gltt
                    /\ lp_obs' = TickObs(o, f, dp.calls, dp.shouldExit,
                                         HoldEvents(hc.calls) \o rd.trace
                                         \o DispatchEvents(dp.calls)
                                         \o <<Event("show", NoIndex, <<"showFrame">>)>>)
                    /\ lp_pc' = IF o = "quit_key" \/ dp.shouldExit THEN "after_loop"
                                ELSE "loop"
                    /\ lp_exit' = IF o = "quit_key" THEN "quit_key"
                                  ELSE IF dp.shouldExit THEN "exit_signal"
                                  ELSE "none"
    /\ UNCHANGED <<has_pyautogui, be_call, now, stVars, cpVars, dp_repertoire, dp_invoked_at,
                   dp_obs, hmVars, lp_released, geVars, tr_cfg, tr_env, tr_run, tr_ticks,
                   tr_obs, dcVars, cmVars, rcVars, huVars>>

\* The run of centre fingertips of a hand: the smoothed position the run
\* started from and the number of calls since.
RunAfter(run, pre, called, hand_index, lm) ==
    IF ~called THEN run
    ELSE IF lm = <<Half, Half>> /\ hand_index \in DOMAIN pre
    THEN IF hand_index \in DOMAIN run
         THEN Put(run, hand_index, [from |-> run[hand_index].from, n |-> run[hand_index].n + 1])
         ELSE Put(run, hand_index, [from |-> pre[hand_index], n |-> 1])
    ELSE Pop(run, hand_index)

\* gesture_name and require_gesture of a call.
Gates == TrackGestures \X BOOLEAN

\* One call of track_hand with arguments from the given sets.
TrackHandWith(hands, landmarks, gates, boxes) ==
    /\ tr_ticks < MaxTicks
    /\ \E hand_index \in hands, lm \in landmarks, gate \in gates, box \in boxes :
          \E r \in {track_hand(tr_cfg, tr_last_smoothed, hand_index, lm, gate[1], box,
                               gate[2], tr_env)} :
            /\ tr_last_smoothed' = r.last
            /\ tr_run' = RunAfter(tr_run, tr_last_smoothed, r.called, hand_index, lm)
            /\ tr_ticks' = tr_ticks + 1
            /\ tr_obs' = [op |-> "track_hand", hand_index |-> hand_index, lm |-> lm,
                          gesture |-> gate[1], box |-> box, require |-> gate[2],
                          pre |-> tr_last_smoothed, ret |-> r.ret, called |-> r.called,
                          at |-> r.at, fallback |-> r.fallback, pixel |-> r.pixel,
                          geometry |-> r.geometry, from |-> r.from]
    /\ UNCHANGED <<beVars, now, stVars, cpVars, dpVars, hmVars, lpVars, ge_obs, tr_cfg, tr_env, dcVars, cmVars,
                   rcVars, huVars>>

\* Calls for either hand, gated or not, without a monitor box.
TrackHandCall ==
    TrackHandWith(HandIndexes, Landmarks,
                  {<<None, TRUE>>, <<TRACK_GESTURE, TRUE>>, <<"03_fist", TRUE>>,
                   <<"03_fist", FALSE>>},
                  {NoBox})

\* Ungated calls for hand 0, with and without a monitor box.
PointerMove == TrackHandWith({0}, Fingertips, {<<None, TRUE>>}, Boxes)

\* ---- Tracker with an injected move function
\* hand_landmarks as track_hand meets it: None, an empty sequence, a sequence
\* of at most 8 points, a sequence whose point 8 has no readable x and y, or
\* a sequence whose point 8 is at tip.
HandLandmarks(kind, tip) == [kind |-> kind, tip |-> tip]
MalformedKinds == {"none", "empty", "short", "unreadable"}
\* Fingertips inside and outside [0, 1].
UnitTips ==
    {<<0 - Half, Unit + Half>>, <<(2 * Unit) \div 5, Half>>,
     <<(4 * Unit) \div 5, (2 * Unit) \div 5>>}
UnitLandmarks ==
    {HandLandmarks(k, <<0, 0>>) : k \in MalformedKinds}
    \cup {HandLandmarks("ok", t) : t \in UnitTips}

\* What a call of the injected move function does: returns a true or a false
\* value, or raises.
MoveOutcomes == {"True", "False", "raise"}

\* The amplified and clamped fingertip of lines 127-137.
amplified(cfg, tip) ==
    LET y0 == IF cfg.invert_y THEN Unit - tip[2] ELSE tip[2]
    IN  <<Clamp01(Half + ((tip[1] - Half) * cfg.sensitivity) \div Fifths),
          Clamp01(Half + ((y0 - Half) * cfg.sensitivity) \div Fifths)>>

UnitResult(ret, last, called, at, raised) ==
    [ret |-> ret, last |-> last, called |-> called, at |-> at, raised |-> raised]

\* The call of the move function outside the try of lines 206-214.
track_hand_injected_unguarded(cfg, last, hand_index, hand_landmarks, gesture_name, require_gesture, move) ==
    IF ~cfg.move THEN UnitResult(FALSE, last, FALSE, NoPixel, FALSE)
    ELSE IF require_gesture /\ gesture_name # None /\ gesture_name # TRACK_GESTURE
    THEN UnitResult(FALSE, last, FALSE, NoPixel, FALSE)
    ELSE IF hand_landmarks.kind \in {"none", "empty", "short"}
    THEN UnitResult(FALSE, last, FALSE, NoPixel, FALSE)
    ELSE IF hand_landmarks.kind = "unreadable"
    THEN UnitResult(FALSE, last, FALSE, NoPixel, Escapes("raise", ExceptException))
    ELSE LET s == smoothed(cfg, last, hand_index, hand_landmarks.tip)
         IN  UnitResult(move = "True", Put(last, hand_index, s), TRUE, s,
                        Escapes(move, {}))

\* Tracker.track_hand with the move function given to the constructor left
\* abstract (move is what its call does; no monitor box, no detect_monitors):
\* the result, _last_smoothed afterwards, whether the move function was
\* called and with what, and whether an exception leaves the call.  The
\* landmarks are read inside the try of lines 117-125, the move function is
\* called inside the try of lines 206-214.
track_hand_injected(cfg, last, hand_index, hand_landmarks, gesture_name, require_gesture, move) ==
    IF ~cfg.move THEN UnitResult(FALSE, last, FALSE, NoPixel, FALSE)
    ELSE IF require_gesture /\ gesture_name # None /\ gesture_name # TRACK_GESTURE
    THEN UnitResult(FALSE, last, FALSE, NoPixel, FALSE)
    ELSE IF hand_landmarks.kind \in {"none", "empty", "short"}
    THEN UnitResult(FALSE, last, FALSE, NoPixel, FALSE)
    ELSE IF hand_landmarks.kind = "unreadable"
    THEN UnitResult(FALSE, last, FALSE, NoPixel, Escapes("raise", ExceptException))
    ELSE LET s == smoothed(cfg, last, hand_index, hand_landmarks.tip)
         IN  UnitResult(move = "True", Put(last, hand_index, s), TRUE, s,
                        Escapes(move, ExceptException))

\* reset_hand(hand_index) that forgets nothing.
reset_hand_keeps(last, hand_index) == last
\* reset_hand(hand_index) and reset_all().
reset_hand(last, hand_index) == Pop(last, hand_index)
reset_all(last) == EmptyDict

\* What is recorded of a call on the tracker: the operation, its arguments,
\* _last_smoothed before it, and for track_hand the result, the position
\* given to the move function, what the move function did and whether the
\* call raised.
TuObs(op, hand_index, lm, move, pre, r) ==
    [op |-> op, hand_index |-> hand_index, lm |-> lm, move |-> move, pre |-> pre, ret |-> r.ret,
     called |-> r.called, at |-> r.at, raised |-> r.raised]

\* One call of track_hand on a tracker with an injected move function.
TrackHandInjected ==
    /\ tr_ticks < MaxTicks
    /\ \E hand_index \in HandIndexes, lm \in UnitLandmarks, move \in MoveOutcomes :
          \E r \in {track_hand_injected(tr_cfg, tr_last_smoothed, hand_index, lm, None, TRUE,
                                        move)} :
            /\ tr_last_smoothed' = r.last
            /\ tr_ticks' = tr_ticks + 1
            /\ tr_obs' = TuObs("track_hand", hand_index, lm, IF r.called THEN move ELSE "True",
                               tr_last_smoothed, r)
    /\ UNCHANGED <<beVars, now, stVars, cpVars, dpVars, hmVars, lpVars, ge_obs, tr_cfg, tr_env,
                   tr_run, dcVars, cmVars, rcVars, huVars>>

\* reset_hand(hand_index)
ResetHand ==
    /\ \E hand_index \in HandIndexes :
          /\ tr_last_smoothed' = reset_hand(tr_last_smoothed, hand_index)
          /\ tr_obs' = TuObs("reset_hand", hand_index, HandLandmarks("none", <<0, 0>>),
                             "True", tr_last_smoothed,
                             UnitResult(FALSE, tr_last_smoothed, FALSE, NoPixel, FALSE))
    /\ UNCHANGED <<beVars, now, stVars, cpVars, dpVars, hmVars, lpVars, ge_obs, tr_cfg, tr_env,
                   tr_run, tr_ticks, dcVars, cmVars, rcVars, huVars>>

\* reset_all()
ResetAll ==
    /\ tr_last_smoothed' = reset_all(tr_last_smoothed)
    /\ tr_obs' = TuObs("reset_all", NoIndex, HandLandmarks("none", <<0, 0>>),
                       "True", tr_last_smoothed,
                       UnitResult(FALSE, tr_last_smoothed, FALSE, NoPixel, FALSE))
    /\ UNCHANGED <<beVars, now, stVars, cpVars, dpVars, hmVars, lpVars, ge_obs, tr_cfg, tr_env,
                   tr_run, tr_ticks, dcVars, cmVars, rcVars, huVars>>

\* set_smoothing(alpha) with alpha in (0, 1].
SetSmoothing ==
    /\ \E alpha \in {1, 3, Fifths} :
          /\ alpha # tr_cfg.alpha
          /\ tr_cfg' = [tr_cfg EXCEPT !.alpha = alpha]
          /\ tr_obs' = [tr_obs EXCEPT !.op = "set_smoothing"]
    /\ UNCHANGED <<beVars, now, stVars, cpVars, dpVars, hmVars, lpVars, ge_obs, tr_env,
                   tr_last_smoothed, tr_run, tr_ticks, dcVars, cmVars, rcVars, huVars>>

\* The normalized coordinates of a direct call: the corners, the centre, and
\* values outside [0, 1] on either side.
NormCoords == {0 - Half, 0, Half, Unit, Unit + Half}

\* One direct call of move_mouse_normalized(nx, ny, fallback_screen_size).
MoveNormalizedCall ==
    /\ tr_obs.op = "none"
    /\ \E nx \in NormCoords, ny \in {0, Unit}, box \in Boxes :
          \E r \in {move_mouse_normalized(nx, ny, box, tr_env)} :
            tr_obs' = [TrObsInit EXCEPT !.op = "move_mouse_normalized", !.at = <<nx, ny>>,
                                        !.box = box, !.fallback = box, !.called = TRUE,
                                        !.ret = r.ret, !.pixel = r.pixel,
                                        !.geometry = r.geometry, !.from = r.from]
    /\ UNCHANGED <<beVars, now, stVars, cpVars, dpVars, hmVars, lpVars, ge_obs, tr_cfg, tr_env,
                   tr_last_smoothed, tr_run, tr_ticks, dcVars, cmVars, rcVars, huVars>>

\* Monitor geometries left of and above the origin, at the origin, right of
\* it, and of one pixel; and the bare size of a screen.
OffsetBoxes ==
    {<<1920, 1080, 0 - 1920, 0>>, <<1280, 720, 0, 0 - 720>>, <<1920, 1080, 0, 0>>,
     <<2560, 1440, 1920, 0>>, <<1, 1, 5, 5>>, <<1920, 1080>>, NoBox}

\* Display environments without Hyprland in which xrandr fails or lists one
\* monitor left of the origin (detect_monitors reads offsets with a sign,
\* lines 65-72).
OffsetEnvs ==
    [hypr : {HyprAbsent},
     xrandr : {XrandrFails,
               [ok |-> TRUE,
                monitors |-> <<[name |-> "HDMI-1", w |-> 1920, h |-> 1080, ox |-> 0 - 1920,
                                oy |-> 0, primary |-> TRUE]>>]},
     xdpyinfo : {NoBox},
     pysize : ScreenSizes,
     abs : {e \in AbsEnvs : e.xdotool = "missing"}]

\* A direct call of move_mouse_normalized with a monitor box anywhere
\* around the origin.
MoveNormalizedOnto ==
    /\ tr_obs.op = "none"
    /\ \E nx \in NormCoords, ny \in {0, Half, Unit}, box \in OffsetBoxes :
          \E r \in {move_mouse_normalized(nx, ny, box, tr_env)} :
            tr_obs' = [TrObsInit EXCEPT !.op = "move_mouse_normalized", !.at = <<nx, ny>>,
                                        !.box = box, !.fallback = box, !.called = TRUE,
                                        !.ret = r.ret, !.pixel = r.pixel,
                                        !.geometry = r.geometry, !.from = r.from]
    /\ UNCHANGED <<beVars, now, stVars, cpVars, dpVars, hmVars, lpVars, ge_obs, tr_cfg, tr_env,
                   tr_last_smoothed, tr_run, tr_ticks, dcVars, cmVars, rcVars, huVars>>

(***************************************************************************)
(* External commands started during a tick (gestures.py, mouse_control.py) *)
(***************************************************************************)

\* Where a tick starts an external command and waits for it, and whether the
\* wait has a timeout (seconds), NoTimeout when it has none.
NoTimeout == 0
CommandTimeout ==
    [c \in {"_run_cmd", "pactl", "playerctl", "xdotool mousemove", "ydotool help",
            "ydotool detected", "ydotool form", "ydotool stdin", "hyprctl monitors",
            "hyprctl dispatch", "xrandr --query", "xrandr --current", "xdpyinfo"} |->
        IF c \in {"ydotool stdin", "hyprctl monitors"} THEN 1 ELSE NoTimeout]
Commands == DOMAIN CommandTimeout

MaxCmdTicks == 2
MaxCommands == 2

CmInit ==
    /\ cm_pc = "idle"
    /\ cm_cmd = None
    /\ cm_hung = FALSE
    /\ cm_tick = 0
    /\ cm_ran = 0
    /\ cm_obs = "none"

\* The frame loop begins a tick.
TickStart ==
    /\ cm_pc = "idle" /\ cm_tick < MaxCmdTicks
    /\ cm_pc' = "tick" /\ cm_ran' = 0
    /\ UNCHANGED <<cm_cmd, cm_hung, cm_tick, cm_obs>>
    /\ UNCHANGED <<beVars, now, stVars, cpVars, dpVars, hmVars, lpVars, geVars, trVars, dcVars, rcVars, huVars>>

\* The tick starts a command and waits for it; the process either returns
\* on its own or never does.
CommandStart ==
    /\ cm_pc = "tick" /\ cm_ran < MaxCommands
    /\ \E c \in Commands, hung \in BOOLEAN : cm_cmd' = c /\ cm_hung' = hung
    /\ cm_pc' = "waiting" /\ cm_ran' = cm_ran + 1
    /\ UNCHANGED <<cm_tick, cm_obs>>
    /\ UNCHANGED <<beVars, now, stVars, cpVars, dpVars, hmVars, lpVars, geVars, trVars, dcVars, rcVars, huVars>>

\* The command returns (with any exit code): the call returns or raises
\* CalledProcessError, which the caller catches.
CommandReturns ==
    /\ cm_pc = "waiting" /\ ~cm_hung
    /\ cm_pc' = "tick" /\ cm_obs' = "returned"
    /\ UNCHANGED <<cm_cmd, cm_hung, cm_tick, cm_ran>>
    /\ UNCHANGED <<beVars, now, stVars, cpVars, dpVars, hmVars, lpVars, geVars, trVars, dcVars, rcVars, huVars>>

\* The timeout of the wait expires: TimeoutExpired is raised and caught, the
\* call is abandoned.
TimeoutExpires ==
    /\ cm_pc = "waiting" /\ CommandTimeout[cm_cmd] # NoTimeout
    /\ cm_pc' = "tick" /\ cm_obs' = "abandoned"
    /\ UNCHANGED <<cm_cmd, cm_hung, cm_tick, cm_ran>>
    /\ UNCHANGED <<beVars, now, stVars, cpVars, dpVars, hmVars, lpVars, geVars, trVars, dcVars, rcVars, huVars>>

\* The tick completes.
TickEnd ==
    /\ cm_pc = "tick"
    /\ cm_pc' = "idle" /\ cm_tick' = cm_tick + 1
    /\ UNCHANGED <<cm_cmd, cm_hung, cm_ran, cm_obs>>
    /\ UNCHANGED <<beVars, now, stVars, cpVars, dpVars, hmVars, lpVars, geVars, trVars, dcVars, rcVars, huVars>>

(***************************************************************************)
(* The recognizer callback (recognizer.py)                                 *)
(***************************************************************************)

\* An entry of result.gestures or result.handedness: a category list whose
\* top category has this name, an empty category list ("empty"), or a list
\* whose top category has no readable category_name ("bad").
RcGestureEntries == {"03_fist", "Victory", "empty", "bad"}
RcHandEntries == {"Left", "empty"}
MaxRcHands == 1

\* The results the recognition subsystem passes to the callback; the three
\* sequences need not have the same length.
RcResults ==
    [gestures : UNION {[1 .. n -> RcGestureEntries] : n \in 0 .. MaxRcHands},
     handedness : UNION {[1 .. n -> RcHandEntries] : n \in 0 .. MaxRcHands},
     hand_landmarks : UNION {[1 .. n -> {"lmA"}] : n \in 0 .. MaxRcHands}]

\* Lines 99-101 and 109-111: the name appended for an entry.
top_category(e) == IF e \in {"empty", "bad"} THEN None ELSE e

\* Lines 96-115 when nothing raises: the three lists built from the result.
parsed(result) ==
    [gestures |-> [i \in 1 .. Len(result.gestures) |-> top_category(result.gestures[i])],
     handedness |-> [i \in 1 .. Len(result.handedness) |-> top_category(result.handedness[i])],
     landmarks |-> result.hand_landmarks]

\* Where reading the result raises (an attribute or an iteration of the
\* result object), if anywhere.
ParseOutcomes == {"ok", "raise_gestures", "raise_handedness", "raise_landmarks"}

\* What a call of result_store.set does: it completes, raises before any
\* assignment, or raises after the first or the second of the assignments of
\* result_store.py:56-58.
SetOutcomes == {"ok", "raise", "raise_after_gestures", "raise_after_handedness"}

\* result_store.set(g, h, l) with the given outcome, from store st.
store_set(st, t, outcome) ==
    CASE outcome = "ok" -> t
      [] outcome = "raise" -> st
      [] outcome = "raise_after_gestures" -> [st EXCEPT !.gestures = t.gestures]
      [] outcome = "raise_after_handedness" ->
            [st EXCEPT !.gestures = t.gestures, !.handedness = t.handedness]

\* _callback(result, output_image, timestamp_ms): the store afterwards and
\* whether an exception left the callback.  set1 is the outcome of the set
\* of line 127, set2 of the set of line 120.
callback(st, result, parse, set1, set2) ==
    IF parse # "ok"
    THEN [store |-> store_set(st, EmptyTriple, set2), raised |-> FALSE]
    ELSE [store |-> store_set(st, parsed(result), set1), raised |-> FALSE]

\* What happens in an invocation: where reading the result raises, and the
\* outcome of the one call of set that is made (line 127 after a complete
\* parse, line 120 otherwise); "ok" stands for the call that is not made.
CallbackOutcomes ==
    {<<"ok", s, "ok">> : s \in SetOutcomes}
    \cup {<<p, "ok", s>> : p \in ParseOutcomes \ {"ok"}, s \in {"ok", "raise"}}

RcObsInit ==
    [op |-> "none", result |-> [gestures |-> <<>>, handedness |-> <<>>, hand_landmarks |-> <<>>],
     parse |-> "ok", set1 |-> "ok", set2 |-> "ok", pre |-> EmptyTriple, raised |-> FALSE]

\* ResultStore.__init__
RcInit ==
    /\ rc_store = EmptyTriple
    /\ rc_obs = RcObsInit

\* One invocation of the callback by the recognition subsystem.
Callback ==
    /\ \E result \in RcResults, o \in CallbackOutcomes :
          \E r \in {callback(rc_store, result, o[1], o[2], o[3])} :
            /\ rc_store' = r.store
            /\ rc_obs' = [op |-> "callback", result |-> result, parse |-> o[1],
                          set1 |-> o[2], set2 |-> o[3], pre |-> rc_store,
                          raised |-> r.raised]
    /\ UNCHANGED <<beVars, now, stVars, cpVars, dpVars, hmVars, lpVars, geVars, trVars, dcVars,
                   cmVars, huVars>>

(***************************************************************************)
(* Specifications                                                          *)
(***************************************************************************)

\* The dispatch state of a specification that makes no dispatch.
DpIdle == DpInit /\ dp_repertoire = {"Open_Palm", "Victory"}

InitBackend == BeInit /\ HuInit /\ RcInit /\ CmInit /\ now = StartTime /\ StInit /\ CpInit /\ DpIdle /\ HmIdle /\ LpInit /\ GeIdle /\ TrIdle
NextBackend == StartHoldCall \/ StopHoldCall \/ MoveMouseAbsCall
SpecBackend == InitBackend /\ [][NextBackend]_vars

InitStore == BeInit /\ HuInit /\ RcInit /\ CmInit /\ has_pyautogui /\ now = StartTime /\ StInit /\ CpInit /\ DpIdle /\ HmIdle /\ LpInit /\ GeIdle /\ TrIdle
NextStore ==
    \/ StoreTick
    \/ \E t \in Threads : SetBegin(t)
    \/ \E t \in Threads : SetAcquire(t)
    \/ \E t \in Threads : SetGestures(t)
    \/ \E t \in Threads : SetHandedness(t)
    \/ \E t \in Threads : SetLandmarks(t)
    \/ \E t \in Threads : SetTs(t)
    \/ \E t \in Threads : SetRelease(t)
    \/ \E t \in Threads : SnapBegin(t)
    \/ \E t \in Threads : SnapAcquire(t)
    \/ \E t \in Threads : SnapGestures(t)
    \/ \E t \in Threads : SnapHandedness(t)
    \/ \E t \in Threads : SnapLandmarks(t)
    \/ \E t \in Threads : SnapTs(t)
    \/ \E t \in Threads : SnapRelease(t)
    \/ \E t \in Threads : PrintBegin(t)
    \/ \E t \in Threads : PrintAcquire(t)
    \/ \E t \in Threads : PrintGestures(t)
    \/ \E t \in Threads : PrintHandedness(t)
    \/ \E t \in Threads : PrintLandmarks(t)
    \/ \E t \in Threads : PrintRelease(t)
    \/ \E t \in Threads : LoopReadBegin(t)
    \/ \E t \in Threads : LoopReadAcquire(t)
    \/ \E t \in Threads : LoopReadGestures(t)
    \/ \E t \in Threads : LoopReadHandedness(t)
    \/ \E t \in Threads : LoopReadLandmarks(t)
    \/ \E t \in Threads : LoopReadRelease(t)
SpecStore == InitStore /\ [][NextStore]_vars

\* The calls of ResultStore.set and snapshot alone, under fair scheduling:
\* a thread inside a call takes its next step, and a thread waiting for the
\* lock gets it if the lock is free again and again.
StoreCallStep(t) ==
    \/ SetGestures(t) \/ SetHandedness(t) \/ SetLandmarks(t) \/ SetTs(t) \/ SetRelease(t)
    \/ SnapGestures(t) \/ SnapHandedness(t) \/ SnapLandmarks(t) \/ SnapTs(t)
    \/ SnapRelease(t)
StoreAcquire(t) == SetAcquire(t) \/ SnapAcquire(t)
NextStoreFair ==
    \/ \E t \in Threads : SetBegin(t)
    \/ \E t \in Threads : SnapBegin(t)
    \/ \E t \in Threads : StoreAcquire(t)
    \/ \E t \in Threads : StoreCallStep(t)
SpecStoreFair ==
    /\ InitStore /\ [][NextStoreFair]_vars
    /\ \A t \in Threads : WF_vars(StoreCallStep(t)) /\ SF_vars(StoreAcquire(t))

InitStoreCopy == BeInit /\ HuInit /\ RcInit /\ CmInit /\ has_pyautogui /\ now = StartTime /\ StInit /\ CpInit /\ DpIdle /\ HmIdle /\ LpInit /\ GeIdle /\ TrIdle
NextStoreCopy == CopySet \/ CopySnapshot \/ MutateInput \/ MutateReturned
SpecStoreCopy == InitStoreCopy /\ [][NextStoreCopy]_vars

InitDispatch == BeInit /\ HuInit /\ RcInit /\ CmInit /\ has_pyautogui /\ now = StartTime /\ StInit /\ CpInit /\ DpInit /\ HmIdle /\ LpInit /\ GeIdle /\ TrIdle
NextDispatch == Dispatch \/ DispatchTick
SpecDispatch == InitDispatch /\ [][NextDispatch]_vars

InitHold ==
    BeInit /\ HuInit /\ RcInit /\ CmInit /\ has_pyautogui /\ now = StartTime /\ StInit /\ CpInit /\ DpIdle /\ HmInit /\ LpInit /\ GeIdle /\ TrIdle
NextHold == UpdateCall \/ ReleaseAllCall \/ HoldTick
SpecHold == InitHold /\ [][NextHold]_vars

NextHoldOne == UpdateOneHand \/ HoldTick
SpecHoldOne == InitHold /\ [][NextHoldOne]_vars

\* A manager whose start hook takes the keyword call or is missing.
InitHoldSeq == InitHold /\ hm_start_kind \in {"kwargs", "missing"}
NextHoldSeq == UpdateObserved \/ HoldTick
SpecHoldSeq == InitHoldSeq /\ [][NextHoldSeq]_vars

\* The manager with update() recorded in full and release_all().
NextHoldReset == UpdateObserved \/ ReleaseAllObserved \/ HoldTick
SpecHoldReset == InitHoldSeq /\ [][NextHoldReset]_vars

\* The manager wired to the backend of gestures.py.
InitHoldWired == InitHold /\ hm_start_kind = "kwargs" /\ hm_stop_kind = "callable"
NextHoldWired == UpdateWired
SpecHoldWired == InitHoldWired /\ [][NextHoldWired]_vars

\* The loop's hold detection and the manager fed the same frames.
NextHoldPair == HoldPairFrame \/ HoldTick
SpecHoldPair == InitHoldSeq /\ [][NextHoldPair]_vars

NextStoreDeep == CopySet \/ CopySnapshot \/ MutateInput \/ MutateReturned \/ MutatePoint
SpecStoreDeep == InitStoreCopy /\ [][NextStoreDeep]_vars

InitGeometry ==
    BeInit /\ HuInit /\ RcInit /\ CmInit /\ has_pyautogui /\ now = StartTime /\ StInit /\ CpInit /\ DpIdle /\ HmIdle /\ LpInit
    /\ GeInit /\ TrIdle
NextGeometry == GetMonitorGeometryCall
SpecGeometry == InitGeometry /\ [][NextGeometry]_vars

InitTracker ==
    BeInit /\ HuInit /\ RcInit /\ CmInit /\ now = StartTime /\ StInit /\ CpInit /\ DpIdle /\ HmIdle /\ LpInit
    /\ GeIdle /\ TrInit /\ has_pyautogui /\ tr_env \in TrackerEnvs
    /\ tr_cfg \in TrackerConfigs
    /\ tr_cfg.detect /\ (tr_cfg.sensitivity # Fifths => ~tr_cfg.invert_y /\ tr_cfg.move)
    /\ (tr_cfg.invert_y => tr_cfg.move)
NextTracker == TrackHandCall
SpecTracker == InitTracker /\ [][NextTracker]_vars

\* A tracker with an injected move function, or with none.
InitTrackerUnit ==
    BeInit /\ HuInit /\ RcInit /\ CmInit /\ now = StartTime /\ StInit /\ CpInit /\ DpIdle /\ HmIdle /\ LpInit
    /\ GeIdle /\ has_pyautogui
    /\ tr_last_smoothed = EmptyDict /\ tr_run = EmptyDict /\ tr_ticks = 0
    /\ tr_obs = TuObs("none", NoIndex, HandLandmarks("none", <<0, 0>>), "True", EmptyDict,
                      UnitResult(FALSE, EmptyDict, FALSE, NoPixel, FALSE))
    /\ tr_env \in {e \in TrackerEnvs : e.abs.py = "ok"}
    /\ tr_cfg \in TrackerConfigs
    /\ ~tr_cfg.detect /\ tr_cfg.alpha = 3
    /\ (~tr_cfg.move => tr_cfg.sensitivity = Fifths /\ ~tr_cfg.invert_y)
NextTrackerUnit == TrackHandInjected \/ ResetHand \/ ResetAll \/ SetSmoothing
SpecTrackerUnit == InitTrackerUnit /\ [][NextTrackerUnit]_vars

InitPointer ==
    BeInit /\ HuInit /\ RcInit /\ CmInit /\ now = StartTime /\ StInit /\ CpInit /\ DpIdle /\ HmIdle /\ LpInit
    /\ GeIdle /\ TrInit /\ tr_env \in PointerRunEnvs
    /\ tr_cfg \in TrackerConfigs
    /\ tr_cfg.move /\ tr_cfg.alpha # 1 /\ ~tr_cfg.invert_y
NextPointer == PointerMove
SpecPointer == InitPointer /\ [][NextPointer]_vars

\* The main thread keeps running, a process that does not hang returns, and
\* a timeout that was set expires.
InitCommands ==
    BeInit /\ HuInit /\ RcInit /\ CmInit /\ has_pyautogui /\ now = StartTime /\ StInit /\ CpInit /\ DpIdle /\ HmIdle
    /\ LpInit /\ GeIdle /\ TrIdle
NextCommands == TickStart \/ CommandStart \/ CommandReturns \/ TimeoutExpires \/ TickEnd
SpecCommands ==
    /\ InitCommands /\ [][NextCommands]_vars
    /\ WF_vars(TickStart) /\ WF_vars(CommandReturns) /\ WF_vars(TimeoutExpires)
    /\ WF_vars(TickEnd)

InitCallback ==
    BeInit /\ HuInit /\ RcInit /\ CmInit /\ has_pyautogui /\ now = StartTime /\ StInit /\ CpInit /\ DpIdle /\ HmIdle
    /\ LpInit /\ GeIdle /\ TrIdle
NextCallback == Callback
SpecCallback == InitCallback /\ [][NextCallback]_vars

InitNormalized ==
    BeInit /\ HuInit /\ RcInit /\ CmInit /\ now = StartTime /\ StInit /\ CpInit /\ DpIdle /\ HmIdle /\ LpInit
    /\ GeIdle /\ TrInit /\ tr_env \in PointerRunEnvs
    /\ tr_cfg = [alpha |-> 3, sensitivity |-> 6, invert_y |-> FALSE, move |-> TRUE,
                 detect |-> TRUE]
NextNormalized == MoveNormalizedCall
SpecNormalized == InitNormalized /\ [][NextNormalized]_vars

InitNormalizedOnto ==
    BeInit /\ HuInit /\ RcInit /\ CmInit /\ now = StartTime /\ StInit /\ CpInit /\ DpIdle /\ HmIdle /\ LpInit
    /\ GeIdle /\ TrInit /\ tr_env \in OffsetEnvs
    /\ tr_cfg = [alpha |-> 3, sensitivity |-> 6, invert_y |-> FALSE, move |-> TRUE,
                 detect |-> TRUE]
NextNormalizedOnto == MoveNormalizedOnto
SpecNormalizedOnto == InitNormalizedOnto /\ [][NextNormalizedOnto]_vars

\* The frame loop with its calls traced; the cursor mover imported or not.
InitTick ==
    /\ BeInit /\ HuInit /\ RcInit /\ CmInit /\ has_pyautogui /\ now = StartTime /\ StInit /\ CpInit
    /\ DpIdle /\ HmIdle /\ LpInit /\ GeIdle /\ TrInit
    /\ tr_env \in {e \in TrackerEnvs : e.abs.py = "ok" /\ e.abs.y = YdotoolMissing}
    /\ tr_cfg \in {[alpha |-> 3, sensitivity |-> 6, invert_y |-> FALSE, move |-> m,
                     detect |-> m] : m \in BOOLEAN}
NextTick == FrameTickTraced \/ FinalRelease
SpecTick == InitTick /\ [][NextTick]_vars

InitLoop ==
    BeInit /\ HuInit /\ RcInit /\ CmInit /\ has_pyautogui /\ now = StartTime /\ StInit /\ CpInit /\ DpIdle /\ HmIdle /\ LpInit /\ GeIdle /\ TrIdle
NextLoop == CameraNotOpen \/ FrameTick \/ FinalRelease \/ MainReturn \/ MainExit \/ LoopClock
SpecLoop == InitLoop /\ [][NextLoop]_vars

(***************************************************************************)
(* Properties of the OS action backend                                     *)
(***************************************************************************)

Mechanisms == <<"pyautogui", "xdotool", "ydotool">>
MechRank(m) == CHOOSE i \in 1 .. Len(Mechanisms) : Mechanisms[i] = m
\* The mechanism an invocation recorded in `tried` belongs to.
MechOf(t) == IF t \in {"pyautogui", "xdotool"} THEN t ELSE "ydotool"

\* Whether a mechanism was there to be tried in call c, and whether it
\* worked, read off the environment's answers alone.
MechAvail(c, m) ==
    CASE m = "pyautogui" -> has_pyautogui
      [] m = "xdotool"   -> c.env.xdotool # "missing"
      [] m = "ydotool"   -> IF c.op = "move_mouse_abs" THEN c.env.y.ydotool # "missing"
                            ELSE c.env.ydotool # "missing"
MechOk(c, m) ==
    CASE m = "pyautogui" -> c.env.py = "ok"
      [] m = "xdotool"   -> c.env.xdotool = "ok"
      [] m = "ydotool"   ->
            IF c.op = "move_mouse_abs"
            THEN \/ c.env.y.yhelp \in {"mousemove", "mouse move", "m"} /\ c.env.y.ydet = "ok"
                 \/ \E i \in 1 .. Len(YdotoolForms) : c.env.y.yforms[i] = "ok"
                 \/ c.env.y.ystdin = "rc0"
            ELSE c.env.ydotool = "ok"
MechWorks(c, m) == MechAvail(c, m) /\ MechOk(c, m)
MechSet == {Mechanisms[i] : i \in 1 .. Len(Mechanisms)}

\* The call got past the "already in that state" guard and ran its chain.
ChainEntered(c) ==
    \/ c.op = "move_mouse_abs"
    \/ c.op = "start_hold" /\ ~c.pre.holding
    \/ c.op = "stop_hold" /\ c.pre.holding

\* C8: start_hold called while the holding flag is true, and stop_hold called
\* while it is false, return True, invoke no mechanism at all and leave
\* _hold_state (holding, hand_index, handedness) as it was.
C8_IdempotentNoOp ==
    /\ (be_call.op = "start_hold" /\ be_call.pre.holding) =>
          /\ be_call.ret /\ ~be_call.raised
          /\ be_call.tried = <<>>
          /\ hold_state = be_call.pre
    /\ (be_call.op = "stop_hold" /\ ~be_call.pre.holding) =>
          /\ be_call.ret /\ ~be_call.raised
          /\ be_call.tried = <<>>
          /\ hold_state = be_call.pre

\* A press requested for another hand while the button is already held, with
\* a working backend at hand.
C8_Witness ==
    /\ be_call.op = "start_hold" /\ be_call.pre.holding
    /\ be_call.pre.handedness = "Left" /\ be_call.handedness = "Right"
    /\ be_call.env.xdotool = "ok"

\* C9: start_hold, stop_hold and move_mouse_abs try the library, then
\* xdotool, then ydotool: a mechanism is invoked exactly when it is there and
\* no earlier mechanism succeeded (a missing or failing one never stops the
\* chain, the first success ends it), the call returns True exactly when some
\* mechanism that was there succeeded, False exactly when all failed, and it
\* never raises.
C9_FallbackChain ==
    ChainEntered(be_call) =>
        /\ ~be_call.raised
        /\ \A m \in MechSet :
              (\E i \in 1 .. Len(be_call.tried) : MechOf(be_call.tried[i]) = m)
              <=> /\ MechAvail(be_call, m)
                  /\ \A m2 \in MechSet :
                        MechRank(m2) < MechRank(m) => ~MechWorks(be_call, m2)
        /\ \A i, j \in 1 .. Len(be_call.tried) :
              i < j => MechRank(MechOf(be_call.tried[i])) <= MechRank(MechOf(be_call.tried[j]))
        /\ be_call.ret <=> \E m \in MechSet : MechWorks(be_call, m)

\* The library raised, xdotool failed, and the last ydotool attempt moved the
\* cursor.
C9_Witness ==
    /\ be_call.op = "move_mouse_abs" /\ has_pyautogui
    /\ be_call.env.py = "raise" /\ be_call.env.xdotool = "fail"
    /\ be_call.tried[Len(be_call.tried)] = "ydotool stdin"
    /\ be_call.ret

\* C10: _hold_state changes only in a call in which a mechanism succeeded:
\* holding becomes true only in a start_hold whose press succeeded, false only
\* in a stop_hold whose release succeeded; a call whose chain ran and found
\* every mechanism failing returns False and leaves holding, hand_index and
\* handedness as they were.
C10_StateOnlyOnSuccess ==
    /\ be_call.op # "none" =>
          /\ hold_state # be_call.pre =>
                /\ be_call.ret
                /\ \E m \in MechSet : MechWorks(be_call, m)
                /\ be_call.op \in {"start_hold", "stop_hold"}
          /\ (hold_state.holding /\ ~be_call.pre.holding) => be_call.op = "start_hold"
          /\ (~hold_state.holding /\ be_call.pre.holding) => be_call.op = "stop_hold"
    /\ (ChainEntered(be_call) /\ \A m \in MechSet : ~MechWorks(be_call, m)) =>
          /\ ~be_call.ret /\ ~be_call.raised
          /\ hold_state = be_call.pre

\* A release in which everything failed: the button is still marked held, for
\* the hand that pressed it.
C10_Witness ==
    /\ be_call.op = "stop_hold" /\ be_call.pre.holding
    /\ \A m \in MechSet : ~MechWorks(be_call, m)
    /\ be_call.env.xdotool = "fail"
    /\ hold_state.holding /\ hold_state.handedness = "Left"

(***************************************************************************)
(* Properties of the result store                                          *)
(***************************************************************************)

\* The triples a write can have put in the store, and the initial one.
WrittenTriples == StoreFrames \cup {EmptyTriple}

\* C5: every triple a reader has obtained, by ResultStore.snapshot or by the
\* locked read of latest_result, has its gestures, handedness and landmarks
\* from one write, or all three from the initial empty state; never from two
\* writes.
C5_ReadsAreOfOneWrite ==
    \A t \in Readers :
        th_got[t].complete =>
            \E f \in WrittenTriples :
                /\ th_got[t].gestures = f.gestures
                /\ th_got[t].handedness = f.handedness
                /\ th_got[t].landmarks = f.landmarks

\* A reader has obtained a written triple while a writer is in the middle of
\* replacing the store's fields by those of another write.
C5_Witness ==
    \E t \in Readers : \E w \in Writers :
        /\ th_got[t].complete /\ th_got[t].api = "snapshot"
        /\ th_got[t].gestures # <<>>
        /\ th_pc[w] = "set_handedness"
        /\ rs.gestures # th_got[t].gestures
        /\ rs.handedness = th_got[t].handedness

\* C6: what snapshot() returns equals, by value, the three lists as they
\* were when set() was called, whatever has since been added to, removed from
\* or replaced in the caller's lists or the lists of an earlier snapshot().
C6_SnapshotEqualsValuesAtSet ==
    cp_obs.op = "snapshot" => cp_obs.ret = cp_obs.set

\* A snapshot taken after a set() of a non-empty triple, after which both a
\* list passed to set() and a list returned by snapshot() were changed.
C6_Witness ==
    /\ cp_obs.op = "snapshot"
    /\ cp_obs.set # EmptyTriple
    /\ cp_obs.mutated = {"input", "returned"}

(***************************************************************************)
(* Properties of the gesture dispatch                                      *)
(***************************************************************************)

\* The gestures with a configured cooldown and a bound action.
DebouncedGestures == DOMAIN GESTURE_COOLDOWNS \cap DOMAIN GESTURE_ACTIONS

\* The last dispatch was of a debounced gesture.
DispatchedDebounced == dp_obs.gesture \in DebouncedGestures
\* The time from the last invocation of the gesture's action to the dispatch.
SinceTrigger == dp_obs.at - dp_obs.prev
\* The last dispatch named the hand: a handedness label and a hand index.
HandNamed == dp_obs.handedness # None /\ dp_obs.handIndex # NoIndex

\* C4: a dispatch of a gesture with cooldown c that names the hand (a
\* handedness label and a hand index) does not invoke the bound action when
\* made c seconds or less after the action's last invocation, and invokes it
\* when made more than c seconds after it or when the action was never
\* invoked; a dispatch that does not name the hand invokes nothing.
C4_CooldownForNamedHands ==
    DispatchedDebounced =>
        LET c == GESTURE_COOLDOWNS[dp_obs.gesture]
        IN  /\ HandNamed /\ dp_obs.prev # NoTime /\ SinceTrigger <= c => dp_obs.invoked = <<>>
            /\ HandNamed /\ (dp_obs.prev = NoTime \/ SinceTrigger > c)
                    => dp_obs.invoked = <<GESTURE_ACTIONS[dp_obs.gesture]>>
            /\ ~HandNamed => dp_obs.invoked = <<>>

\* A gesture with a one-second cooldown, dispatched with the hand named more
\* than a second after its action was last invoked, invokes the action again.
C4_Witness ==
    /\ dp_obs.gesture = "Open_Palm" /\ HandNamed
    /\ dp_obs.prev # NoTime /\ SinceTrigger > GESTURE_COOLDOWNS["Open_Palm"]
    /\ dp_obs.invoked = <<"action_open_palm">>

\* C4 as stated, for every dispatch: less than c seconds after the last
\* invocation it invokes nothing, and after c seconds have elapsed (or with
\* no invocation before) it invokes the bound action.
C4_AsStated ==
    DispatchedDebounced =>
        LET c == GESTURE_COOLDOWNS[dp_obs.gesture]
        IN  /\ dp_obs.prev # NoTime /\ SinceTrigger < c => dp_obs.invoked = <<>>
            /\ (dp_obs.prev = NoTime \/ SinceTrigger > c)
                    => dp_obs.invoked = <<GESTURE_ACTIONS[dp_obs.gesture]>>

(***************************************************************************)
(* Properties of the hold manager                                          *)
(***************************************************************************)

\* Both hooks of the manager are callable.
HooksCallable == hm_start_kind # "missing" /\ hm_stop_kind # "missing"

\* The calls of a pattern's events that reached the start hook, the stop hook.
PatStartCalls == SelectSeq(hm_pat.events, LAMBDA c : c.op = "start_hold" /\ c.ran)
PatStopCalls == SelectSeq(hm_pat.events, LAMBDA c : c.op = "stop_hold")
\* The pattern's calls that reached a hook, by hook, in order.
PatOps == [i \in 1 .. Len(SelectSeq(hm_pat.events, LAMBDA c : c.ran)) |->
              SelectSeq(hm_pat.events, LAMBDA c : c.ran)[i].op]

\* C1, what the code guarantees: with both hooks callable, once hand 0 has gone through [no gesture,
\* hold gesture n >= 1 times, no gesture], the calls made since the first
\* frame are one press attempt followed by exactly one call of the release
\* hook; the press attempt is one call of the press hook, made again with
\* other arguments only after a call that raised (the first with TypeError),
\* three calls at most; this for every n.
C1_OnePressAttemptThenOneRelease ==
    hm_pat.stage = "done" /\ HooksCallable =>
        LET ev == hm_pat.events
            n == Len(ev)
        IN  /\ n >= 2 /\ n <= 4
            /\ ev[n].op = "stop_hold"
            /\ \A i \in 1 .. n - 1 : ev[i].op = "start_hold" /\ ev[i].form = CallForms[i]
            /\ n >= 3 => ev[1].outcome = "TypeError"
            /\ n = 4 => ev[2].outcome \in {"TypeError", "raise"}
            /\ ev[1].outcome # "TypeError" => Len(PatStartCalls) = 1
            /\ Len(PatStopCalls) = 1

\* The pattern is complete with more than one hold frame, and the press hook
\* was called once.
C1_Witness ==
    /\ hm_pat.stage = "done" /\ HooksCallable
    /\ hm_pat.n >= 2
    /\ PatOps = <<"start_hold", "stop_hold">>

\* C1 as stated: the pattern produces exactly one call of the press hook
\* followed by exactly one call of the release hook.
C1_AsStated ==
    hm_pat.stage = "done" /\ HooksCallable => PatOps = <<"start_hold", "stop_hold">>

\* C2 as stated, with a callable stop hook: no call of update makes a press
\* call for a hand whose last press or release call was a press call.
C2_AsStated ==
    hm_stop_kind # "missing" => hm_obs.double_calls = {}

\* C2, what the code guarantees: with a callable stop hook, no call of update
\* starts a press attempt (the keyword call and the calls that retry it) for a
\* hand whose last attempt was a press attempt.
C2_AttemptsAlternate ==
    hm_stop_kind # "missing" => hm_obs.double = {}

\* A press attempt for a hand whose last attempt was a release.
C2_Witness ==
    /\ hm_stop_kind # "missing"
    /\ \E h \in hm_obs.presses : hm_obs.pre_ev[h] = "release"

\* C7 as stated: release_all() does not raise, and leaves no previous
\* gesture, no holding flag and no last-start timestamp, whatever the release
\* hook.
C7_AsStated ==
    hm_obs.op = "release_all" =>
        /\ ~hm_obs.raised
        /\ DOMAIN hm_prev = {} /\ DOMAIN hm_holding = {} /\ DOMAIN hm_last_start_ts = {}

\* C7, what the code guarantees: release_all() does not raise and leaves no
\* holding flag; with a callable release hook it leaves no per-hand state.
C7_ClearedWithCallableHook ==
    hm_obs.op = "release_all" =>
        /\ ~hm_obs.raised
        /\ DOMAIN hm_holding = {}
        /\ hm_stop_kind # "missing" =>
               DOMAIN hm_prev = {} /\ DOMAIN hm_last_start_ts = {}

\* release_all() was called without a callable release hook while a hand was
\* remembered as showing the hold gesture.
C7_Witness ==
    /\ hm_obs.op = "release_all" /\ hm_stop_kind = "missing"
    /\ \E h \in DOMAIN hm_prev : hm_prev[h] = HoldGesture

(***************************************************************************)
(* Properties of the frame loop                                            *)
(***************************************************************************)

\* C3 as stated: however the frame loop stopped (quit key, exit signal, no
\* frame, camera not open, exception in a tick), the release after the loop
\* was invoked before the program is torn down.
C3_AsStated ==
    lp_pc = "torn_down" => lp_released

\* C3, what the code guarantees: the release after the loop was invoked when
\* the loop stopped by a break or by its condition, not by an exception.
C3_ReleasedUnlessRaised ==
    lp_pc = "torn_down" /\ lp_exit # "exception" => lp_released

\* The program is torn down after an exception in a tick, with the button
\* held and no release invoked.
C3_Witness ==
    /\ lp_pc = "torn_down" /\ lp_exit = "exception"
    /\ hold_state.holding /\ ~lp_released


(***************************************************************************)
(* Properties of the monitor geometry and of the pointer tracking          *)
(***************************************************************************)
\* The monitors of a list that the selection policy looks at first: those
\* with the target name if there are any, else those flagged primary, else
\* those at offset (0,0), else those of the largest area.
PreferredMonitors(ms) ==
    LET Named == {i \in DOMAIN ms : ms[i].name = TARGET_MONITOR_NAME}
        Primary == {i \in DOMAIN ms : ms[i].primary}
        AtOrigin == {i \in DOMAIN ms : ms[i].ox = 0 /\ ms[i].oy = 0}
        Largest == {i \in DOMAIN ms : \A j \in DOMAIN ms : ms[j].w * ms[j].h <= ms[i].w * ms[i].h}
    IN  IF Named # {} THEN Named
        ELSE IF Primary # {} THEN Primary
        ELSE IF AtOrigin # {} THEN AtOrigin
        ELSE Largest

GeometryResolved ==
    ge_obs.op = "_get_monitor_geometry" /\ ge_obs.xrandr.ok /\ ge_obs.xrandr.monitors # <<>>

\* C11: given a non-empty list of detected monitors, the resolver returns
\* (width, height, offset_x, offset_y) of the first monitor with the target
\* name; if there is none, of the first primary one; if there is none, of
\* the first at offset (0,0); if there is none, of the first of largest area.
C11_MonitorByPriority ==
    GeometryResolved =>
        LET ms == ge_obs.xrandr.monitors
            first == CHOOSE i \in PreferredMonitors(ms) : \A j \in PreferredMonitors(ms) : i <= j
        IN  ge_obs.ret = <<ms[first].w, ms[first].h, ms[first].ox, ms[first].oy>>

\* The named monitor comes after a primary monitor at (0,0) of another name and
\* is chosen.
C11_Witness ==
    /\ GeometryResolved
    /\ Len(ge_obs.xrandr.monitors) = 2
    /\ ge_obs.xrandr.monitors[1].name = "HDMI-1" /\ ge_obs.xrandr.monitors[1].primary
    /\ ge_obs.xrandr.monitors[1].ox = 0
    /\ ge_obs.xrandr.monitors[2].name = TARGET_MONITOR_NAME
    /\ ~ge_obs.xrandr.monitors[2].primary
    /\ ge_obs.xrandr.monitors[2].ox = 1920 /\ ge_obs.xrandr.monitors[2].w = 2560
    /\ ge_obs.ret = <<2560, 1440, 1920, 0>>

GatedOut ==
    /\ tr_obs.op = "track_hand"
    /\ tr_obs.require /\ tr_obs.gesture # None /\ tr_obs.gesture # TRACK_GESTURE

\* C12: a call of track_hand with require_gesture=True and a gesture that is
\* given and is not the tracking gesture returns False, makes no call of the
\* move function and leaves the smoothed position of every hand as it was.
C12_GatedCallChangesNothing ==
    GatedOut => /\ tr_obs.ret = FALSE
                /\ ~tr_obs.called
                /\ tr_last_smoothed = tr_obs.pre

\* Both hands have a smoothed position, a move function is installed, and a
\* call with a fingertip is gated out.
C12_Witness ==
    /\ GatedOut
    /\ tr_cfg.move
    /\ tr_obs.lm # NoLandmarks
    /\ DOMAIN tr_obs.pre = HandIndexes
    /\ tr_last_smoothed = tr_obs.pre

\* The position the code computes from a geometry <<w, h, ox, oy>> for a
\* normalized position at.
PixelIn(geometry, at) ==
    <<geometry[3] + (at[1] * (geometry[1] - 1)) \div Unit,
      geometry[4] + (at[2] * (geometry[2] - 1)) \div Unit>>

FirstUnscaledMove ==
    /\ tr_obs.op = "track_hand" /\ tr_obs.called
    /\ tr_cfg.sensitivity = Fifths /\ ~tr_cfg.invert_y
    /\ tr_obs.hand_index \notin DOMAIN tr_obs.pre
    /\ Len(tr_obs.box) = 4

\* C13 as stated: with sensitivity 1.0, no Y inversion and no smoothed
\* position of the hand yet, a fingertip at (0,0) with the monitor box
\* (w, h, ox, oy) sends the cursor to (ox, oy), and a fingertip at (1,1) to
\* (ox + w - 1, oy + h - 1).
C13_AsStated ==
    FirstUnscaledMove =>
        /\ tr_obs.lm = <<0, 0>> => tr_obs.pixel = <<tr_obs.box[3], tr_obs.box[4]>>
        /\ tr_obs.lm = <<Unit, Unit>> =>
              tr_obs.pixel = <<tr_obs.box[3] + tr_obs.box[1] - 1,
                               tr_obs.box[4] + tr_obs.box[2] - 1>>

\* The box is (1920, 1080, 0, 0), xrandr lists DP-1 at 2560x1440+1920+0, and
\* the fingertip at (1,1) sends the cursor to (4479, 1439).
C13_Witness ==
    /\ FirstUnscaledMove
    /\ tr_obs.box = <<1920, 1080, 0, 0>>
    /\ tr_obs.lm = <<Unit, Unit>>
    /\ tr_obs.from = "detected"
    /\ tr_obs.pixel = <<4479, 1439>>

\* What holds of the mapping: the position is the corner of the geometry the
\* move function settled on.
C13_CornersOfTheGeometryUsed ==
    FirstUnscaledMove /\ tr_obs.geometry # NoBox =>
        /\ tr_obs.lm = <<0, 0>> => tr_obs.pixel = <<tr_obs.geometry[3], tr_obs.geometry[4]>>
        /\ tr_obs.lm = <<Unit, Unit>> =>
              tr_obs.pixel = <<tr_obs.geometry[3] + tr_obs.geometry[1] - 1,
                               tr_obs.geometry[4] + tr_obs.geometry[2] - 1>>

\* C14: while the fingertip (0.5, 0.5) is fed for a hand that has a smoothed
\* position, each call multiplies the distance of the smoothed position to
\* (0.5, 0.5) by (1 - alpha), in both coordinates: after n calls it is
\* (1 - alpha)^n of the distance the run started with, which is at most 0.5
\* as every smoothed position lies in [0, 1].
C14_CentreRunContracts ==
    /\ \A hi \in DOMAIN tr_last_smoothed :
          /\ tr_last_smoothed[hi][1] \in 0 .. Unit
          /\ tr_last_smoothed[hi][2] \in 0 .. Unit
    /\ \A hi \in DOMAIN tr_run :
          /\ hi \in DOMAIN tr_last_smoothed
          /\ \A c \in 1 .. 2 :
                (tr_last_smoothed[hi][c] - Half) * Power(Fifths, tr_run[hi].n)
                    = (tr_run[hi].from[c] - Half) * Power(Fifths - tr_cfg.alpha, tr_run[hi].n)

\* A hand away from the centre in both coordinates is fed the centre twice
\* with alpha = 0.6.
C14_Witness ==
    /\ tr_cfg.alpha = 3
    /\ 0 \in DOMAIN tr_run
    /\ tr_run[0].n = 2
    /\ tr_run[0].from[1] # Half /\ tr_run[0].from[2] # Half
    /\ tr_last_smoothed[0][1] # Half

\* The geometry a monitor box stands for: offsets 0 when it is (w, h).
BoxGeometry(box) == IF Len(box) = 2 THEN <<box[1], box[2], 0, 0>> ELSE box

Detected == get_monitor_geometry([xrandr |-> tr_env.xrandr, xdpyinfo |-> tr_env.xdpyinfo])

\* C20 as stated: when a monitor box is passed to track_hand the cursor
\* position is computed from that box whatever hyprctl, xrandr and xdpyinfo
\* report; a detected geometry is used only when no box was passed, and the
\* size of the whole screen only when there is neither.
C20_AsStated ==
    tr_obs.op = "track_hand" /\ tr_obs.called =>
        /\ tr_obs.box # NoBox =>
              /\ tr_obs.geometry = BoxGeometry(tr_obs.box)
              /\ tr_obs.pixel = PixelIn(BoxGeometry(tr_obs.box), tr_obs.at)
        /\ tr_obs.from \in {"hyprctl", "detected"} => tr_obs.box = NoBox
        /\ tr_obs.from = "screen" => tr_obs.box = NoBox /\ Detected = NoBox

\* A box is passed, xrandr lists a primary monitor of another geometry, and
\* the cursor is placed in that monitor.
C20_Witness ==
    /\ tr_obs.op = "track_hand" /\ tr_obs.called
    /\ tr_obs.box = <<1280, 720, 0, 1080>>
    /\ ~tr_env.hypr.present
    /\ tr_obs.from = "detected"
    /\ tr_obs.geometry = <<1920, 1080, 0, 0>>
    /\ tr_obs.lm = <<Unit, Unit>>
    /\ tr_obs.pixel = <<1919, 1079>>

\* What holds instead: the box is used only when hyprctl placed no cursor
\* and neither xrandr nor xdpyinfo gave a geometry.
C20_BoxIsTheFallback ==
    tr_obs.op = "track_hand" /\ tr_obs.called =>
        /\ tr_obs.from = "box" => Detected = NoBox /\ tr_obs.geometry = BoxGeometry(tr_obs.fallback)
        /\ tr_obs.from = "detected" => tr_obs.geometry = Detected
        /\ tr_obs.from = "screen" => tr_obs.fallback = NoBox /\ Detected = NoBox

(***************************************************************************)
(* Properties of handleGesture's bookkeeping                               *)
(***************************************************************************)
\* The last dispatch was of a gesture with an action.
DispatchedBound == dp_obs.gesture \in DOMAIN GESTURE_ACTIONS

\* now - last_trigger_time[g] > cooldown(g) at the last dispatch, with 0 for
\* a gesture without a trigger time or without a cooldown.
CooldownOver ==
    dp_obs.at - Get(dp_obs.ltt, dp_obs.gesture, 0) > Get(GESTURE_COOLDOWNS, dp_obs.gesture, 0)

\* The dispatch invoked the action of its gesture and recorded the time.
InvokedAndStamped ==
    /\ dp_obs.invoked = <<GESTURE_ACTIONS[dp_obs.gesture]>>
    /\ ah_last_trigger_time = Put(dp_obs.ltt, dp_obs.gesture, dp_obs.at)

\* The dispatch invoked nothing and left the trigger times as they were.
NothingDone == dp_obs.invoked = <<>> /\ ah_last_trigger_time = dp_obs.ltt

\* C17 as stated: whatever the handedness (Left, Right or absent) and the
\* hand index, a dispatch of a bound gesture invokes the action and records
\* the time exactly when the cooldown is over, and does nothing otherwise.
C17_AsStated ==
    DispatchedBound /\ dp_obs.handIndex # NoIndex =>
        IF CooldownOver THEN InvokedAndStamped ELSE NothingDone

\* C17: a dispatch of a bound gesture that names the hand (a handedness
\* label and a hand index) invokes the bound action and sets
\* last_trigger_time[g] to now exactly when now - last_trigger_time[g] is
\* more than the cooldown of g (0 without an entry); otherwise, and whenever
\* the hand is not named, it invokes nothing and leaves last_trigger_time
\* unchanged.
C17_StampedExactlyWhenInvoked ==
    DispatchedBound =>
        IF HandNamed /\ CooldownOver THEN InvokedAndStamped ELSE NothingDone

\* A bound gesture with a cooldown is dispatched for a named hand exactly at
\* the end of its cooldown and does nothing.
C17_Witness ==
    /\ DispatchedBound /\ HandNamed
    /\ dp_obs.gesture \in DOMAIN dp_obs.ltt
    /\ dp_obs.at - dp_obs.ltt[dp_obs.gesture] = Get(GESTURE_COOLDOWNS, dp_obs.gesture, 0)
    /\ Get(GESTURE_COOLDOWNS, dp_obs.gesture, 0) > 0
    /\ NothingDone

\* C18: a dispatch of a gesture that has no entry in the action table invokes
\* no action, returns False and leaves last_trigger_time unchanged.
C18_UnboundGestureIsNoOp ==
    dp_obs.gesture # None /\ ~DispatchedBound =>
        /\ dp_obs.ret = "False"
        /\ NothingDone

\* Peace has a cooldown entry and no action: it is dispatched for a named
\* hand after another gesture was triggered.
C18_Witness ==
    /\ dp_obs.gesture = "Peace" /\ HandNamed
    /\ dp_obs.ltt # EmptyDict
    /\ dp_obs.ret = "False"

(***************************************************************************)
(* Properties of the store's copies below the list level                   *)
(***************************************************************************)
\* C19 as stated: set() copies its inputs deeply: the points seen through
\* the landmarks a later snapshot() returns are those the landmark objects
\* had when set() was called, whatever was changed in them since.
C19_AsStated ==
    cp_obs.op = "snapshot" => dc_obs.ret = dc_obs.set

\* C19: set() copies the landmark list and not the objects in it: a later
\* snapshot() returns the same landmark objects in the same order as were
\* passed to set(), whatever was done to the caller's list since, and a
\* point changed in one of them after set() is seen through the snapshot.
C19_ListCopiedObjectsShared ==
    cp_obs.op = "snapshot" =>
        /\ cp_obs.ret.landmarks = cp_obs.set.landmarks
        /\ dc_obs.ret = DeepLandmarks(cp_obs.set.landmarks, lm_points)

\* A point of a landmark object was changed after set(), and the snapshot
\* shows the changed point.
C19_Witness ==
    /\ cp_obs.op = "snapshot"
    /\ dc_obs.touched
    /\ dc_obs.set # <<>>
    /\ dc_obs.ret # dc_obs.set


(***************************************************************************)
(* Properties of a tick of the frame loop                                  *)
(***************************************************************************)
\* The tick read a frame and none of the library calls around it (capture,
\* flip, drawing primitives, showFrame, waitKey) raised by itself.
TickOfTheCore == lp_obs.o \in {"none", "quit_key"}

\* C15 as stated: whatever the snapshot holds (absent gesture or handedness
\* entries included) and whatever actions, hooks and backend calls do, a
\* tick never leaves the loop by an exception.
C15_AsStated ==
    TickOfTheCore => lp_pc # "raised" /\ lp_exit # "exception"

\* The loop left by an exception in a tick whose snapshot has a landmark
\* list for a hand with an absent handedness entry.
C15_Witness ==
    /\ lp_pc = "raised" /\ lp_obs.o = "none"
    /\ Len(lp_obs.handedness) > 0 /\ lp_obs.handedness[1] = None

\* The value an action function returns (gestures.py).
ResultOf(name) ==
    CASE name \in {"action_open_palm", "action_fist"} -> "False"
      [] name = "action_victory" -> "True"
      [] OTHER -> "None"

\* The hands of the frame that have a gesture, in order.
HandsWithGesture(gestures) ==
    {i \in 0 .. Len(gestures) - 1 : At(gestures, i) # None}

\* C16: each call of handleGesture made by the tick returned the result of
\* the action it invoked, False when it invoked none; and when a call of the
\* tick returned a truthy value, every hand with a gesture was dispatched,
\* the loop was left (by the exit signal or the quit key when nothing raised)
\* and so no later tick runs.
C16_ExitSignalEndsLoop ==
    /\ \A k \in 1 .. Len(lp_obs.calls) :
          lp_obs.calls[k].ret = IF lp_obs.calls[k].invoked = <<>> THEN "False"
                                ELSE ResultOf(lp_obs.calls[k].invoked[1])
    /\ lp_obs.signal <=> \E k \in 1 .. Len(lp_obs.calls) : lp_obs.calls[k].ret = "True"
    /\ lp_obs.signal =>
          /\ {lp_obs.calls[k].i : k \in 1 .. Len(lp_obs.calls)} = HandsWithGesture(lp_obs.gestures)
          /\ lp_pc # "loop"
          /\ TickOfTheCore => lp_pc # "raised" /\ lp_exit \in {"exit_signal", "quit_key"}

\* The first hand's gesture gave the exit signal, the second hand was
\* dispatched after it, and the loop was left by the signal.
C16_Witness ==
    /\ lp_obs.signal /\ Len(lp_obs.calls) = 2
    /\ lp_obs.calls[1].ret = "True" /\ lp_obs.calls[2].invoked = <<"action_fist">>
    /\ lp_pc = "after_loop" /\ lp_exit = "exit_signal"

(***************************************************************************)
(* Properties of a direct call of move_mouse_normalized                    *)
(***************************************************************************)
\* A call was made without a box, and neither hyprctl nor xrandr/xdpyinfo
\* gave a geometry.
NoGeometryNoBox ==
    /\ tr_obs.op = "move_mouse_normalized" /\ tr_obs.box = NoBox
    /\ tr_obs.from \notin {"hyprctl", "detected"}

\* The size of the whole screen as the call knows it: what pyautogui.size()
\* reports, NoBox without the library or when size() fails.
TotalSize == IF has_pyautogui THEN tr_env.pysize ELSE NoBox

\* C21 as stated: with no geometry from any display query and no box, the
\* call maps the coordinate onto the whole screen at offset (0,0) and
\* attempts the move.
C21_AsStated ==
    NoGeometryNoBox => tr_obs.from = "screen" /\ tr_obs.pixel # NoPixel

\* C21, what the code guarantees: with no geometry from any display query and
\* no box, the call maps the clamped coordinate onto the screen size that
\* pyautogui reports, at offset (0,0), and attempts the move; when pyautogui
\* is missing or reports no size it returns False and attempts no move.
C21_WholeScreenWhenSizeKnown ==
    NoGeometryNoBox =>
        IF TotalSize # NoBox
        THEN /\ tr_obs.from = "screen"
             /\ tr_obs.geometry = <<TotalSize[1], TotalSize[2], 0, 0>>
             /\ tr_obs.pixel = <<ScaleToPixels(Clamp01(tr_obs.at[1]), TotalSize[1]),
                                 ScaleToPixels(Clamp01(tr_obs.at[2]), TotalSize[2])>>
        ELSE ~tr_obs.ret /\ tr_obs.pixel = NoPixel /\ tr_obs.from = "none"

\* The bottom-right corner of the whole screen reached by a call without a
\* box and without a detected geometry.
C21_Witness ==
    /\ NoGeometryNoBox /\ tr_obs.from = "screen"
    /\ tr_obs.at = <<Unit, Unit>> /\ tr_obs.pixel = <<3839, 1079>>

\* A call without a box and without a detected geometry that gave up.
C21_GaveUp ==
    NoGeometryNoBox /\ ~has_pyautogui /\ tr_obs.pixel = NoPixel /\ ~tr_obs.ret

(***************************************************************************)
(* Properties of the external commands of a tick                           *)
(***************************************************************************)
\* C22 as stated: whenever a tick waits for an external command, also one
\* that never returns on its own, the wait ends and the tick completes.
C22_AsStated ==
    (cm_pc = "waiting") ~> (cm_pc = "idle")

\* What the code guarantees: the wait for a command ends when the command
\* returns on its own or the wait has a timeout.
C22_WaitEndsUnlessHungForever ==
    (cm_pc = "waiting" /\ (~cm_hung \/ CommandTimeout[cm_cmd] # NoTimeout)) ~> (cm_pc = "tick")

\* The tick waits for a hung command started without a timeout.
C22_Witness ==
    cm_pc = "waiting" /\ cm_hung /\ cm_cmd = "_run_cmd" /\ CommandTimeout[cm_cmd] = NoTimeout

(***************************************************************************)
(* Properties of the recognizer callback                                   *)
(***************************************************************************)
\* C23 as stated: the callback never raises, and after an invocation, also
\* one where reading the result or updating the store failed part-way, the
\* store holds the complete triple parsed from the result or the empty
\* triple.
C23_AsStated ==
    rc_obs.op = "callback" =>
        /\ ~rc_obs.raised
        /\ rc_store \in {parsed(rc_obs.result), EmptyTriple}

\* What the code guarantees: the callback never raises; when the call of
\* set completes, the store holds the parsed triple if reading the result
\* raised nowhere and the empty triple if it did; when the call of set raises
\* before its first assignment the store is what it was.
C23_FreshUnlessSetFails ==
    rc_obs.op = "callback" =>
        /\ ~rc_obs.raised
        /\ rc_obs.set1 = "ok" /\ rc_obs.set2 = "ok" =>
              rc_store = IF rc_obs.parse = "ok" THEN parsed(rc_obs.result) ELSE EmptyTriple
        /\ rc_obs.set1 = "raise" \/ rc_obs.set2 = "raise" => rc_store = rc_obs.pre

\* The store keeps an older triple after an invocation whose call of set
\* raised.
C23_Witness ==
    /\ rc_obs.op = "callback" /\ rc_obs.set1 = "raise"
    /\ rc_store = rc_obs.pre /\ rc_store # EmptyTriple
    /\ rc_store.gestures # parsed(rc_obs.result).gestures

\* Reading the result raised after the gestures were read, and the store
\* holds the empty triple, not the gestures already parsed.
C23_ParseFailureEmptiesStore ==
    /\ rc_obs.op = "callback" /\ rc_obs.parse = "raise_handedness"
    /\ Len(rc_obs.result.gestures) > 0 /\ rc_obs.pre # EmptyTriple /\ rc_store = EmptyTriple

(***************************************************************************)
(* Progress of the calls of ResultStore                                    *)
(***************************************************************************)
\* C24: under fair scheduling every started call of set and of snapshot
\* completes, whatever the other threads do and whether or not another
\* thread ever starts a call again.
C24_EveryCallCompletes ==
    \A t \in Threads : (th_pc[t] # "idle") ~> (th_pc[t] = "idle")

\* The reader waits for the lock while one writer holds it in the middle of
\* set and the other writer waits for it too.
C24_Witness ==
    /\ th_pc["r1"] = "snap_lock"
    /\ \E w \in Writers : th_pc[w] = "set_handedness" /\ rs_lock = w
    /\ \E w \in Writers : th_pc[w] = "set_lock"

\* The lock is held only by a thread between the acquire and the release of
\* its own call.
C24_LockHeldOnlyInsideCall ==
    \A t \in Threads : rs_lock = t <=> th_pc[t] \notin {"idle", "set_lock", "snap_lock"}

(***************************************************************************)
(* Properties of one call of HoldManager.update                            *)
(***************************************************************************)
\* This step is a call of update() recorded in hu_obs'.
UpdateStep == hu_obs' # hu_obs /\ hu_obs'.op = "update"

\* The call before this step showed the hold gesture for hand h and the call
\* of this step does not.
HoldThenNot(h) ==
    /\ hu_obs.op = "update" /\ At(hu_obs.gestures, h) = HoldGesture
    /\ UpdateStep /\ At(hu_obs'.gestures, h) # HoldGesture

\* The call of this step invoked the release hook for hand h.
ReleasedIn(obs, h) ==
    \E i \in 1 .. Len(obs.calls) : obs.calls[i].op = "stop_hold" /\ obs.calls[i].hand = h

\* The hand indexes the call recorded in obs went through.
Processed(obs) ==
    LET idx == Indices(obs.prev, obs.gestures, obs.landmarks)
    IN  {idx[i] : i \in 1 .. Len(idx)}

\* C25 as stated: when a hand showed the hold gesture in one call of update()
\* and does not in the next (another gesture, no gesture, or an index beyond
\* the end of the gestures), the next call invokes the release hook.
C25_AsStated ==
    [][\A h \in HandIndexes :
          HoldThenNot(h) /\ hm_stop_kind = "callable" => ReleasedIn(hu_obs', h)]_vars

\* C25, what the code guarantees: the next call invokes the release hook,
\* whatever the clock reads, when the hand's index is among those the call
\* goes through: below the larger of the lengths of gestures and landmarks,
\* or any remembered hand when both are empty.
C25_ReleasedWhenProcessed ==
    [][\A h \in HandIndexes :
          HoldThenNot(h) /\ hm_stop_kind = "callable" /\ h \in Processed(hu_obs')
              => ReleasedIn(hu_obs', h)]_vars

\* Hand 1 is remembered with the hold gesture and marked holding after a call
\* that reported hand 0 alone and invoked no hook.
C25_Witness ==
    /\ hu_obs.op = "update" /\ Len(hu_obs.gestures) = 1 /\ hu_obs.landmarks = <<>>
    /\ Get(hu_obs.prev, 1, None) = HoldGesture /\ hu_obs.calls = <<>>
    /\ hm_stop_kind = "callable" /\ Get(hm_prev, 1, None) = HoldGesture
    /\ Get(hm_holding, 1, FALSE)

\* The call recorded in obs made a press attempt for hand h.
PressedIn(obs, h) ==
    \E i \in 1 .. Len(obs.calls) : IsPress(obs.calls[i], h)

\* The call recorded in obs went through hand h and found no gesture for it.
NoGestureFor(obs, h) ==
    obs.op = "update" /\ h \in Processed(obs) /\ At(obs.gestures, h) = None

C28_AsStated ==
    \A h \in HandIndexes :
        hu_obs.op = "update" /\ PressedIn(hu_obs, h) /\ h \in DOMAIN hu_obs.pressed_at
            => hu_obs.at - hu_obs.pressed_at[h] >= RestartCooldown

\* What the code does: the manager holds the time of a press attempt only
\* while the hand is remembered with the hold gesture, and a call makes a
\* press attempt for every hand it goes through that enters the hold
\* gesture: the exit that comes before the next entry has removed the time,
\* so the cooldown test never fails.
C28_CooldownNeverApplies ==
    /\ [](\A h \in HandIndexes :
             h \in DOMAIN hm_last_start_ts => Get(hm_prev, h, None) = HoldGesture)
    /\ [][\A h \in HandIndexes :
            UpdateStep /\ hm_start_kind # "missing" =>
                (PressedIn(hu_obs', h) <=>
                    /\ h \in Processed(hu_obs')
                    /\ Entering(Get(hu_obs'.prev, h, None), At(hu_obs'.gestures, h)))]_vars

\* Hand 1 is pressed again at the clock reading at which it was last pressed
\* and released.
C28_Witness ==
    /\ hu_obs.op = "update" /\ PressedIn(hu_obs, 1)
    /\ Get(hu_obs.prev, 1, None) = "06_index"
    /\ 1 \in DOMAIN hu_obs.holding /\ ~hu_obs.holding[1]
    /\ Get(hu_obs.pressed_at, 1, 0) = hu_obs.at


\* C29 as stated: is_holding(h) is true only when the last hook call for hand
\* h is a press attempt that reported success; after a press attempt that
\* reported failure is_holding(h) is false.
C29_AsStated ==
    \A h \in HandIndexes :
        Get(hm_holding, h, FALSE) =>
            LastHooks(hu_obs)[h] = [op |-> "start_hold", outcome |-> "True"]

\* What the code guarantees: is_holding(h) is true after a press attempt that
\* reported success and false after a release hook that returned; it is true
\* only when a press hook has returned for the hand.
C29_HoldingFollowsReturnedHooks ==
    \A h \in HandIndexes :
        LET last == LastHooks(hu_obs)[h]
        IN  /\ last = [op |-> "start_hold", outcome |-> "True"] => Get(hm_holding, h, FALSE)
            /\ last.op = "stop_hold" /\ last.outcome # "raise" => ~Get(hm_holding, h, FALSE)
            /\ Get(hm_holding, h, FALSE) =>
                   \/ h \in DOMAIN PressTimes(hu_obs)
                   \/ last.op = "start_hold"

\* The only hook call made for hand 1 is a press attempt that reported
\* failure, and is_holding(1) is true.
C29_Witness ==
    /\ hu_obs.op = "update" /\ PressedIn(hu_obs, 1)
    /\ hu_obs.last_hook[1] = NoHook
    /\ LastHooks(hu_obs)[1] = [op |-> "start_hold", outcome |-> "False"]
    /\ Get(hm_holding, 1, FALSE)


\* C30: a call of update() returns normally whatever the hooks do (missing,
\* returning failure, raising) and whatever the lengths of gestures,
\* handedness and landmarks; a hand whose index lies beyond the gestures
\* counts as showing no gesture (it is not pressed and not remembered), and a
\* hand whose index lies beyond the handedness list is pressed with
\* handedness None.
C30_UpdateNeverRaises ==
    hu_obs.op = "update" =>
        /\ ~hu_obs.raised
        /\ \A h \in Processed(hu_obs) :
               h >= Len(hu_obs.gestures) => h \notin DOMAIN hm_prev /\ ~PressedIn(hu_obs, h)
        /\ \A i \in 1 .. Len(hu_obs.calls) :
               /\ hu_obs.calls[i].op = "start_hold"
               /\ hu_obs.calls[i].hand >= Len(hu_obs.handedness)
               => hu_obs.calls[i].handedness = None

\* A call with one gesture, one handedness entry and two landmark lists
\* releases hand 1, whose index lies beyond the gestures, and the release
\* hook raises.
C30_Witness ==
    /\ hu_obs.op = "update" /\ ~hu_obs.raised
    /\ Len(hu_obs.gestures) = 1 /\ Len(hu_obs.landmarks) = 2
    /\ \E i \in 1 .. Len(hu_obs.calls) :
           /\ hu_obs.calls[i].op = "stop_hold" /\ hu_obs.calls[i].hand = 1
           /\ hu_obs.calls[i].outcome = "raise"

\* A call in which all three forms of the press hook raise returns normally.
C30_PressRaisesThrice ==
    /\ hu_obs.op = "update" /\ ~hu_obs.raised
    /\ Len(hu_obs.calls) = 3
    /\ \A i \in 1 .. 3 : hu_obs.calls[i].op = "start_hold"
                          /\ hu_obs.calls[i].outcome \in {"TypeError", "raise"}


(***************************************************************************)
(* The loop's hold detection against HoldManager.update                    *)
(***************************************************************************)
\* The first call of a press attempt (the keyword form; the other forms are
\* retries of the same attempt) or a release call.
IsAttempt(c) == c.op = "stop_hold" \/ c.form = "kwargs"
\* The hook and the hand of each press attempt and release of a sequence of
\* hook calls made by the manager.
HookOps(calls) ==
    LET a == SelectSeq(calls, IsAttempt)
    IN  [i \in 1 .. Len(a) |-> [op |-> a[i].op, hand |-> a[i].hand]]

\* C26 as stated: fed the same frames, the loop's hold detection and
\* HoldManager.update make the same press and release calls, frame by frame
\* (the manager's retries of a press in another call form not counted).
C26_AsStated ==
    lp_obs.o = "hold_detection" => lp_obs.calls = HookOps(hu_obs.calls)

\* What the code guarantees: as long as the two remember the same gestures,
\* a frame that reports a hand (or finds nothing remembered) makes them call
\* the same hooks and leaves them remembering the same gestures.
C26_SameWhileHandsReported ==
    [][/\ lp_prev = hm_prev
       /\ lp_obs' # lp_obs /\ lp_obs'.o = "hold_detection"
       /\ Max(Len(hu_obs'.gestures), Len(hu_obs'.landmarks)) > 0 \/ DOMAIN hm_prev = {}
       => /\ lp_prev' = hm_prev'
          /\ lp_obs'.calls = HookOps(hu_obs'.calls)]_vars

\* After a hand held the fist, a frame reports no hand: the manager calls the
\* release hook, the loop's hold detection calls nothing and still remembers
\* the fist.
C26_Witness ==
    /\ lp_obs.o = "hold_detection" /\ hu_obs.op = "update"
    /\ hu_obs.gestures = <<>> /\ hu_obs.landmarks = <<>>
    /\ ReleasedIn(hu_obs, 0) /\ lp_obs.calls = <<>>
    /\ Get(lp_prev, 0, None) = HoldGesture /\ hm_prev = EmptyDict


C36_AfterReleaseAll ==
    /\ hu_obs.op = "release_all" /\ hm_stop_kind = "callable"
    /\ 1 \in DOMAIN hu_obs.ts /\ 1 \in DOMAIN hu_obs.pressed_at /\ hm_last_start_ts = EmptyDict /\ hm_prev = EmptyDict


(***************************************************************************)
(* Properties of the tracker with an injected move function                *)
(***************************************************************************)
\* C32: a call of track_hand never raises; with landmarks that are absent,
\* empty, shorter than 9 points or without a readable fingertip, or on a
\* tracker without a move function, it returns False, does not call the move
\* function and leaves _last_smoothed as it was; when the move function
\* raises, the call returns False.
C32_MalformedInputReturnsFalse ==
    tr_obs.op = "track_hand" =>
        /\ ~tr_obs.raised
        /\ tr_obs.lm.kind \in MalformedKinds \/ ~tr_cfg.move
               => ~tr_obs.ret /\ ~tr_obs.called /\ tr_last_smoothed = tr_obs.pre
        /\ tr_obs.called /\ tr_obs.move = "raise" => ~tr_obs.ret

\* The move function raised in a call with a readable fingertip.
C32_MoveRaised ==
    /\ tr_obs.op = "track_hand" /\ tr_obs.called /\ tr_obs.move = "raise"
    /\ ~tr_obs.ret /\ ~tr_obs.raised

\* A call with an unreadable fingertip after the hand was tracked: nothing
\* changed.
C32_Witness ==
    /\ tr_obs.op = "track_hand" /\ tr_obs.lm.kind = "unreadable" /\ tr_cfg.move
    /\ tr_obs.hand_index \in DOMAIN tr_obs.pre
    /\ ~tr_obs.ret /\ ~tr_obs.called /\ tr_last_smoothed = tr_obs.pre


\* C33: the smoothing state is kept per hand until it is reset.  A call of
\* track_hand for one hand leaves the state of every other hand as it was; a
\* tracked frame for a hand without state (never tracked, or reset since)
\* gives the move function exactly the amplified and clamped fingertip of
\* that frame and stores it; reset_hand removes the state of its hand alone,
\* reset_all the state of all hands, and no other call removes a state.
C33_StatePerHandUntilReset ==
    /\ [](/\ tr_obs.op = "track_hand" =>
                /\ \A g \in HandIndexes \ {tr_obs.hand_index} :
                       /\ g \in DOMAIN tr_last_smoothed <=> g \in DOMAIN tr_obs.pre
                       /\ g \in DOMAIN tr_obs.pre => tr_last_smoothed[g] = tr_obs.pre[g]
                /\ tr_obs.called /\ tr_obs.hand_index \notin DOMAIN tr_obs.pre
                       => /\ tr_obs.at = amplified(tr_cfg, tr_obs.lm.tip)
                          /\ tr_last_smoothed[tr_obs.hand_index] = tr_obs.at
          /\ tr_obs.op = "reset_hand" =>
                /\ tr_obs.hand_index \notin DOMAIN tr_last_smoothed
                /\ \A g \in HandIndexes \ {tr_obs.hand_index} :
                       /\ g \in DOMAIN tr_last_smoothed <=> g \in DOMAIN tr_obs.pre
                       /\ g \in DOMAIN tr_obs.pre => tr_last_smoothed[g] = tr_obs.pre[g]
          /\ tr_obs.op = "reset_all" => tr_last_smoothed = EmptyDict)
    /\ [][\A h \in DOMAIN tr_last_smoothed :
            h \notin DOMAIN tr_last_smoothed'
                => \/ tr_obs'.op = "reset_hand" /\ tr_obs'.hand_index = h
                   \/ tr_obs'.op = "reset_all"]_vars

\* reset_hand(0) has removed the state of hand 0 and kept that of hand 1.
C33_Witness ==
    /\ tr_obs.op = "reset_hand" /\ tr_obs.hand_index = 0
    /\ DOMAIN tr_obs.pre = {0, 1} /\ DOMAIN tr_last_smoothed = {1}

\* A third tracked frame gives hand 0, which has no state, its amplified
\* fingertip while hand 1 keeps a state that differs from it.
C33_FreshStart ==
    /\ tr_obs.op = "track_hand" /\ tr_obs.called /\ tr_ticks = MaxTicks
    /\ tr_obs.hand_index = 0 /\ DOMAIN tr_obs.pre = {1}
    /\ tr_last_smoothed[0] = amplified(tr_cfg, tr_obs.lm.tip)
    /\ tr_last_smoothed[1] # tr_last_smoothed[0]

\* C38: with alpha in (0, 1], the position given to the move function and
\* every stored position have both coordinates within [0, 1], whatever the
\* sensitivity, the Y inversion, the fingertips (also outside [0, 1]) and
\* the calls of reset_hand and reset_all in between.
C38_SmoothedWithinUnitSquare ==
    /\ \A h \in DOMAIN tr_last_smoothed :
           \A i \in 1 .. 2 : 0 <= tr_last_smoothed[h][i] /\ tr_last_smoothed[h][i] <= Unit
    /\ tr_obs.op = "track_hand" /\ tr_obs.called =>
           \A i \in 1 .. 2 : 0 <= tr_obs.at[i] /\ tr_obs.at[i] <= Unit

\* A fingertip outside [0, 1] in both coordinates was tracked for a hand
\* that had a state, with a sensitivity above 1.
C38_Witness ==
    /\ tr_obs.op = "track_hand" /\ tr_obs.called
    /\ tr_obs.lm.tip = <<0 - Half, Unit + Half>> /\ tr_cfg.sensitivity > Fifths
    /\ tr_obs.hand_index \in DOMAIN tr_obs.pre
    /\ tr_obs.at # tr_obs.pre[tr_obs.hand_index]


(***************************************************************************)
(* Properties of the pixel move_mouse_normalized computes                  *)
(***************************************************************************)
\* The pixel handed to move_mouse_abs lies inside the rectangle of the
\* geometry it was computed from.
InsideGeometry(pixel, g) ==
    /\ g[3] <= pixel[1] /\ pixel[1] <= g[3] + g[1] - 1
    /\ g[4] <= pixel[2] /\ pixel[2] <= g[4] + g[2] - 1

\* C39 as stated: for every normalized input and every geometry (w, h, ox,
\* oy) with w, h >= 1, also at negative offsets, the pixel handed to
\* move_mouse_abs lies inside the chosen monitor's rectangle.
C39_AsStated ==
    tr_obs.op = "move_mouse_normalized" /\ tr_obs.pixel # NoPixel
        => InsideGeometry(tr_obs.pixel, tr_obs.geometry)

\* What the code computes: the pixel inside the rectangle, then each
\* coordinate raised to 0 when negative; so the pixel lies inside the
\* rectangle when the offsets are not negative.
C39_InsideWhenOffsetsNotNegative ==
    tr_obs.op = "move_mouse_normalized" /\ tr_obs.pixel # NoPixel =>
        LET g == tr_obs.geometry
            x == g[3] + ScaleToPixels(Clamp01(tr_obs.at[1]), g[1])
            y == g[4] + ScaleToPixels(Clamp01(tr_obs.at[2]), g[2])
        IN  /\ InsideGeometry(<<x, y>>, g)
            /\ tr_obs.pixel = <<Max(0, x), Max(0, y)>>
            /\ g[3] >= 0 /\ g[4] >= 0 => InsideGeometry(tr_obs.pixel, g)

\* The centre of a monitor left of the origin is sent to x = 0, right of the
\* monitor's last column.
C39_Witness ==
    /\ tr_obs.op = "move_mouse_normalized" /\ tr_obs.at = <<Half, Half>>
    /\ tr_obs.geometry = <<1920, 1080, 0 - 1920, 0>>
    /\ tr_obs.pixel = <<0, 539>>


(***************************************************************************)
(* Properties of the manager wired to the backend                          *)
(***************************************************************************)
\* HoldManager.any_holding()
any_holding == \E h \in DOMAIN hm_holding : hm_holding[h]

\* C34 as stated: with two hands and a backend that always succeeds, the
\* button is pressed whenever the manager marks some hand as holding.
C34_AsStated ==
    any_holding => hold_state.holding

\* What the code guarantees: the button is pressed only while some hand is
\* marked, and it is released by the first marked hand that leaves the hold
\* gesture: after a call in which a hand was released and none pressed
\* later, the button is up.
C34_PressedOnlyWhileMarked ==
    /\ hold_state.holding => any_holding
    /\ hu_obs.op = "update" /\ hu_obs.calls # <<>>
           => (hold_state.holding <=> hu_obs.calls[Len(hu_obs.calls)].op = "start_hold")

\* Both hands held the fist, hand 0 left it: the manager still marks hand 1
\* and the button is up.
C34_Witness ==
    /\ hu_obs.op = "update" /\ ReleasedIn(hu_obs, 0) /\ ~ReleasedIn(hu_obs, 1)
    /\ Get(hu_obs.holding, 0, FALSE) /\ Get(hu_obs.holding, 1, FALSE)
    /\ Get(hm_holding, 1, FALSE) /\ ~Get(hm_holding, 0, FALSE)
    /\ Get(hm_prev, 1, None) = HoldGesture
    /\ ~hold_state.holding


(***************************************************************************)
(* The button commands emitted by start_hold and stop_hold                 *)
(***************************************************************************)
\* C35: the button commands emitted alternate strictly, starting with a
\* press, whatever the order of the start_hold and stop_hold calls and
\* whatever mechanisms fail: a press follows no command or a release, a
\* release follows a press; and no press command is run while the holding
\* flag is true, no release command while it is false.
C35_EmittedCommandsAlternate ==
    /\ Emitted(be_call) = "press" => be_call.before \in {"none", "release"}
    /\ Emitted(be_call) = "release" => be_call.before = "press"
    /\ be_call.op = "start_hold" /\ be_call.tried # <<>> => ~be_call.pre.holding
    /\ be_call.op = "stop_hold" /\ be_call.tried # <<>> => be_call.pre.holding
    /\ hold_state.holding <=> LastEmitted(be_call) = "press"

\* A press emitted by a fallback mechanism after a release, after an
\* earlier press, with the call before it having failed or been a no-op.
C35_Witness ==
    /\ Emitted(be_call) = "press" /\ be_call.before = "release"
    /\ Len(be_call.tried) > 1
    /\ be_call.env.xdotool = "fail"

\* A start_hold call made while the flag is true emits nothing.
C35_Witness_NoOp ==
    /\ be_call.op = "start_hold" /\ be_call.pre.holding /\ be_call.before = "press"
    /\ be_call.tried = <<>> /\ be_call.ret


(***************************************************************************)
(* The update timestamp of ResultStore                                     *)
(***************************************************************************)
\* C37 as stated: the timestamp held by the store never decreases from one
\* applied set to the next, also with concurrent writers, and a snapshot's
\* timestamp is the one recorded by the set that wrote its sequences.
C37_AsStated ==
    /\ [][rs'.last_update_ts >= rs.last_update_ts]_vars
    /\ [](\A r \in Readers :
              th_got[r].api = "snapshot" /\ th_pc[r] = "snap_release"
                  => th_got[r].ts = rs.last_update_ts)

\* What the code guarantees: the four attributes are written by one set call
\* under the lock and read by snapshot under the lock, so a snapshot's
\* timestamp is the clock reading its set call took on entry, before it
\* waited for the lock; it is never later than the clock.
C37_TimestampOfTheSameSet ==
    /\ [](\A w \in Writers :
              th_pc[w] = "set_release"
                  => rs = [gestures |-> th_arg[w].gestures,
                           handedness |-> th_arg[w].handedness,
                           landmarks |-> th_arg[w].landmarks,
                           last_update_ts |-> th_arg[w].ts])
    /\ [](\A r \in Readers :
              th_got[r].api = "snapshot" /\ th_pc[r] = "snap_release"
                  => /\ th_got[r].gestures = rs.gestures
                     /\ th_got[r].handedness = rs.handedness
                     /\ th_got[r].landmarks = rs.landmarks
                     /\ th_got[r].ts = rs.last_update_ts)
    /\ [](rs.last_update_ts <= now)
    /\ [][rs' # rs => rs_lock \in Writers /\ rs_lock' = rs_lock]_vars

\* A snapshot returned the timestamp of a set, and a set that read the clock
\* earlier and got the lock later has since put an older timestamp in the
\* store.
C37_Witness ==
    /\ rs_lock = None
    /\ \E r \in Readers :
          /\ th_got[r].api = "snapshot" /\ th_got[r].complete
          /\ th_got[r].ts > rs.last_update_ts
          /\ rs.last_update_ts >= StartTime


(***************************************************************************)
(* The order of the calls within one iteration of the frame loop           *)
(***************************************************************************)
Traced == "trace" \in DOMAIN lp_obs

\* The component a call belongs to: 1 hold detection, 2 rendering,
\* 3 tracking, 4 dispatch that invoked an action; 0 for the other calls.
Component(e) ==
    CASE e.kind = "hold" -> 1
      [] e.kind = "draw" -> 2
      [] e.kind = "move" -> 3
      [] e.kind = "dispatch" /\ e.what # <<>> -> 4
      [] OTHER -> 0

\* Where a call stands in the code's order: hold detection, then hand by
\* hand the drawing and the cursor move, then dispatch, then showFrame.
Position(e) ==
    CASE e.kind = "hold" -> 0
      [] e.kind = "draw" -> 1 + 2 * e.hand
      [] e.kind = "move" -> 2 + 2 * e.hand
      [] e.kind = "dispatch" -> 1 + 2 * NumHands
      [] OTHER -> 2 + 2 * NumHands

\* C31 as stated: in every tick all press/release calls of hold detection
\* come before any drawing, all drawing before any cursor move, and all
\* cursor moves before any gesture action is invoked.
C31_AsStated ==
    Traced =>
        \A i, j \in 1 .. Len(lp_obs.trace) :
            i < j /\ Component(lp_obs.trace[i]) # 0 /\ Component(lp_obs.trace[j]) # 0
                => Component(lp_obs.trace[i]) <= Component(lp_obs.trace[j])

\* C31 amended: in every tick the calls of hold detection for all hands come
\* first; then, hand by hand in index order, the hand is drawn and after
\* that the cursor is moved for it; then handleGesture is called for the
\* hands in index order; showFrame comes last.
C31_OrderHandByHand ==
    Traced =>
        /\ \A i, j \in 1 .. Len(lp_obs.trace) :
              i < j => Position(lp_obs.trace[i]) <= Position(lp_obs.trace[j])
        /\ \A i, j \in 1 .. Len(lp_obs.trace) :
              i < j /\ lp_obs.trace[i].kind = lp_obs.trace[j].kind
                    /\ lp_obs.trace[i].kind \in {"move", "dispatch"}
                  => lp_obs.trace[i].hand < lp_obs.trace[j].hand
        /\ \A i \in 1 .. Len(lp_obs.trace) :
              lp_obs.trace[i].kind = "move"
                  => \E j \in 1 .. i - 1 : lp_obs.trace[j] = Event("draw", lp_obs.trace[i].hand,
                                                                   <<"draw_landmarks">>)

\* A tick that pressed the button in hold detection, moved the cursor for
\* hand 0 before it drew hand 1, and invoked an action afterwards.
C31_Witness ==
    /\ Traced
    /\ \E i, j, k, l \in 1 .. Len(lp_obs.trace) :
          /\ i < j /\ j < k /\ k < l
          /\ lp_obs.trace[i] = Event("hold", 1, <<"start_hold">>)
          /\ lp_obs.trace[j] = Event("move", 0, <<TRUE>>)
          /\ lp_obs.trace[k] = Event("draw", 1, <<"draw_landmarks">>)
          /\ lp_obs.trace[l].kind = "dispatch" /\ lp_obs.trace[l].what # <<>>

=========================================================================
